---- MODULE Spec2Model ----
(***************************************************************************)
(* A model of ceilometer/event/converter.py: the conversion of             *)
(* notifications into events.                                              *)
(*                                                                         *)
(*   TraitDefinition              one named, typed field extractor         *)
(*   EventDefinition              include/exclude type patterns + traits   *)
(*   NotificationEventsConverter  the ordered table of definitions         *)
(*                                                                         *)
(* Python strings whose characters the code looks at (event types, type    *)
(* patterns, raw values that are parsed) are sequences of one-character    *)
(* strings.  Dictionary keys and trait names are only compared, and are    *)
(* TLA+ strings.  A Python object is a record [t |-> type, v |-> value].   *)
(***************************************************************************)
EXTENDS Naturals, Integers, Sequences, FiniteSets, TLC

VARIABLES
    pc,             \* "new" | "ready" | "failed": the lifecycle of the object under construction
    events_config,  \* the argument of NotificationEventsConverter.__init__
    add_catchall,   \* the argument of NotificationEventsConverter.__init__
    definitions,    \* NotificationEventsConverter.definitions
    error,          \* the exception raised by a constructor, NoError when none
    notification,   \* the notification body of the last call
    edef,           \* to_event's local edef: index into definitions, 0 for None
    result,         \* what the last call returned or raised
    utcnow,         \* what timeutils.utcnow() returned to the last call
    trait_cfg,      \* the argument of TraitDefinition.__init__
    tdef,           \* the TraitDefinition built from trait_cfg
    config_file,    \* setup_events: whether a configuration file is found, and what it holds
    allow_drop,     \* cfg.CONF.allow_dropping_of_notifications
    log,            \* the records the last call gave to LOG
    threads,        \* concurrent callers of to_event: the locals of each call
    heap            \* the trait lists the calls of the callers allocated

vars == <<pc, events_config, add_catchall, definitions, error,
          notification, edef, result, utcnow, trait_cfg, tdef,
          config_file, allow_drop, log, threads, heap>>

thread_vars == <<threads, heap>>

(***************************************************************************)
(* Bounds of the model.                                                    *)
(***************************************************************************)
MaxRules == 2      \* declared rules in a rule table
MaxEntries == 3    \* entries in one event_type list
MaxAlts == 2       \* alternative paths in one trait's fields list
MaxTraits == 3     \* traits declared by one rule

(***************************************************************************)
(* Strings.                                                                *)
(***************************************************************************)
s_empty == <<>>
s_star == <<"*">>
s_foo == <<"f", "o", "o">>
s_not_foo == <<"!", "f", "o", "o">>
s_not_star == <<"!", "*">>
s_not_image_star == <<"!", "i", "m", "a", "g", "e", ".", "*">>
s_star_thing == <<"*", ".", "t", "h", "i", "n", "g">>
s_test_star == <<"t", "e", "s", "t", ".", "*">>
s_tesq_thing == <<"t", "e", "s", "?", ".", "t", "h", "i", "n", "g">>
s_test_thing == <<"t", "e", "s", "t", ".", "t", "h", "i", "n", "g">>
s_not_test_thing == <<"!", "t", "e", "s", "t", ".", "t", "h", "i", "n", "g">>
s_other_thing == <<"o", "t", "h", "e", "r", ".", "t", "h", "i", "n", "g">>
s_not_other_thing == <<"!", "o", "t", "h", "e", "r", ".", "t", "h", "i", "n", "g">>
s_random_thing == <<"r", "a", "n", "d", "o", "m", ".", "t", "h", "i", "n", "g">>
s_random_whatzit == <<"r", "a", "n", "d", "o", "m", ".", "w", "h", "a", "t", "z", "i", "t">>
s_image_upload == <<"i", "m", "a", "g", "e", ".", "u", "p", "l", "o", "a", "d">>
s_image_dot == <<"i", "m", "a", "g", "e", ".">>
s_imagex == <<"i", "m", "a", "g", "e", "x">>
s_uuid1 == <<"u", "u", "i", "d", "-", "1">>
s_id1 == <<"i", "d", "-", "1">>
s_host1 == <<"h", "o", "s", "t", "-", "1">>
s_svc == <<"c", "o", "m", "p", "u", "t", "e", ".", "h", "o", "s", "t", "1">>
s_req1 == <<"r", "e", "q", "-", "1">>
s_tenant1 == <<"t", "-", "1">>
s_10 == <<"1", "0">>
s_20 == <<"2", "0">>
s_abc == <<"a", "b", "c">>
s_ts_test == <<"2", "0", "1", "3", "-", "0", "8", "-", "0", "8", " ", "2", "1", ":", "0", "6", ":", "3", "7", ".", "8", "0", "3", "8", "2", "6">>
s_ts_context == <<"2", "0", "1", "3", "-", "0", "8", "-", "0", "8", " ", "2", "2", ":", "0", "6", ":", "3", "7">>
s_ts_trait == <<"2", "0", "1", "3", "-", "0", "8", "-", "0", "8", " ", "2", "1", ":", "0", "5", ":", "3", "7", ".", "1", "2", "3", "4", "5", "6">>
s_ts_zone == <<"2", "0", "1", "3", "-", "0", "8", "-", "0", "8", "T", "2", "3", ":", "3", "0", ":", "0", "0", "+", "0", "2", ":", "0", "0">>
s_msg1 == <<"m", "s", "g", "-", "1">>
s_compute_instance_star == <<"c", "o", "m", "p", "u", "t", "e", ".", "i", "n", "s", "t", "a", "n", "c", "e", ".", "*">>
s_compute_instance_create_start == <<"c", "o", "m", "p", "u", "t", "e", ".", "i", "n", "s", "t", "a", "n", "c", "e", ".", "c", "r", "e", "a", "t", "e", ".", "s", "t", "a", "r", "t">>
s_star_start == <<"*", ".", "s", "t", "a", "r", "t">>
s_star_end == <<"*", ".", "e", "n", "d">>
s_not_scheduler_star == <<"!", "s", "c", "h", "e", "d", "u", "l", "e", "r", ".", "*">>
s_image_delete_end == <<"i", "m", "a", "g", "e", ".", "d", "e", "l", "e", "t", "e", ".", "e", "n", "d">>
s_compute_instance_exists == <<"c", "o", "m", "p", "u", "t", "e", ".", "i", "n", "s", "t", "a", "n", "c", "e", ".", "e", "x", "i", "s", "t", "s">>
s_scheduler_run_instance_start == <<"s", "c", "h", "e", "d", "u", "l", "e", "r", ".", "r", "u", "n", "_", "i", "n", "s", "t", "a", "n", "c", "e", ".", "s", "t", "a", "r", "t">>

\* t.startswith('!')
startswith_bang(t) == Len(t) >= 1 /\ t[1] = "!"

\* t[1:]
tail1(t) == IF Len(t) = 0 THEN t ELSE SubSeq(t, 2, Len(t))

(***************************************************************************)
(* fnmatch.fnmatch(name, pat): the whole of name must match pat, where '*' *)
(* matches any run of characters (the empty run and '.' included), '?' one *)
(* character and every other character itself.  The patterns of this model *)
(* hold no '[', so fnmatch's character classes never arise.                *)
(***************************************************************************)
\* '*' stopping at a '.', as a glob over path segments does
RECURSIVE fnmatch_from_segment(_, _, _, _)
fnmatch_from_segment(name, pat, i, j) ==
    IF j > Len(pat) THEN i > Len(name)
    ELSE IF pat[j] = "*"
         THEN \/ fnmatch_from_segment(name, pat, i, j + 1)
              \/ (i <= Len(name) /\ name[i] # "."
                  /\ fnmatch_from_segment(name, pat, i + 1, j))
         ELSE /\ i <= Len(name)
              /\ (pat[j] = "?" \/ pat[j] = name[i])
              /\ fnmatch_from_segment(name, pat, i + 1, j + 1)

RECURSIVE fnmatch_from(_, _, _, _)
fnmatch_from(name, pat, i, j) ==
    IF j > Len(pat) THEN i > Len(name)
    ELSE IF pat[j] = "*"
         THEN \/ fnmatch_from(name, pat, i, j + 1)
              \/ (i <= Len(name) /\ fnmatch_from(name, pat, i + 1, j))
         ELSE /\ i <= Len(name)
              /\ (pat[j] = "?" \/ pat[j] = name[i])
              /\ fnmatch_from(name, pat, i + 1, j + 1)

fnmatch(name, pat) == fnmatch_from(name, pat, 1, 1)

(***************************************************************************)
(* Python objects.                                                         *)
(***************************************************************************)
PyNone == [t |-> "None", v |-> 0]
PyStr(s) == [t |-> "str", v |-> s]
PyInt(n) == [t |-> "int", v |-> n]
PyBool(b) == [t |-> "bool", v |-> b]
PyList(l) == [t |-> "list", v |-> l]
PyDict(d) == [t |-> "dict", v |-> d]

\* isinstance(x, six.string_types)
is_string(x) == x.t = "str"

NoError == [raised |-> FALSE]
Raise(exc, msg) == [raised |-> TRUE, exc |-> exc, msg |-> msg]

(***************************************************************************)
(* ceilometer.storage.models.Trait: the registry of trait types, looked up *)
(* by attribute name, and the trait object.                                *)
(***************************************************************************)
upper(type_name) ==
    CASE type_name = "text" -> "TEXT"
      [] type_name = "int" -> "INT"
      [] type_name = "Int" -> "INT"
      [] type_name = "float" -> "FLOAT"
      [] type_name = "datetime" -> "DATETIME"
      [] type_name = "bogus" -> "BOGUS"
      [] OTHER -> type_name

TraitTypeAttrs == {"TEXT_TYPE", "INT_TYPE", "FLOAT_TYPE", "DATETIME_TYPE"}

\* getattr(models.Trait, '%s_TYPE' % type_name.upper(), None)
TraitTypeOf(type_name) ==
    LET attr == upper(type_name) \o "_TYPE"
    IN IF attr \in TraitTypeAttrs THEN PyStr(attr) ELSE PyNone

\* models.Trait(name, dtype, value)
Trait(name, dtype, value) == [name |-> name, dtype |-> dtype, value |-> value]

\* models.Event(event_type, generated, traits)
Event(event_type, generated, traits) ==
    [event_type |-> event_type, generated |-> generated, traits |-> traits]

(***************************************************************************)
(* jsonpath_rw.  A path expression is [parses, keys]: whether its text is  *)
(* a JSONPath, and the field names of its Child chain.  parse() of a union *)
(* '(p1)|(p2)|...' gives the alternatives in the order written, and fails  *)
(* when any of them fails.                                                 *)
(***************************************************************************)
Path(keys) == [parses |-> TRUE, keys |-> keys]
BadPath == [parses |-> FALSE, keys |-> <<>>]

\* Fields.find on one datum: datum.value[field], no match on TypeError/KeyError
fields_find(datum, field) ==
    IF datum.t = "dict" /\ field \in DOMAIN datum.v
    THEN <<datum.v[field]>>
    ELSE <<>>

\* Child(...).find: the fields applied in turn, from the document's root
RECURSIVE child_find(_, _)
child_find(datum, keys) ==
    IF keys = <<>> THEN <<datum>>
    ELSE LET here == fields_find(datum, Head(keys))
         IN IF here = <<>> THEN <<>> ELSE child_find(here[1], Tail(keys))

\* Union.find with its operands swapped: right.find(data) + left.find(data)
RECURSIVE union_find_reversed(_, _)
union_find_reversed(datum, alts) ==
    IF alts = <<>> THEN <<>>
    ELSE union_find_reversed(datum, Tail(alts)) \o child_find(datum, Head(alts).keys)

\* Union.find: left.find(data) + right.find(data)
RECURSIVE union_find(_, _)
union_find(datum, alts) ==
    IF alts = <<>> THEN <<>>
    ELSE child_find(datum, Head(alts).keys) \o union_find(datum, Tail(alts))

(***************************************************************************)
(* TraitDefinition.                                                        *)
(***************************************************************************)
\* A dictionary's get(key, default)
dict_get(d, key, default) == IF key \in DOMAIN d THEN d[key] ELSE default

\* lines 73-85: the fields specification compiled to its alternatives
compile_fields(fields) ==
    LET alts == IF is_string(fields) THEN <<fields.v>> ELSE fields.v
    IN IF alts = <<>> \/ \E i \in 1..Len(alts) : ~alts[i].parses
       THEN [ok |-> FALSE, alts |-> <<>>]
       ELSE [ok |-> TRUE, alts |-> alts]

\* lines 80-91 with text standing in for a type that is not known
trait_of_untyped(name, cfg, compiled, trait_type) ==
    IF ~compiled.ok
    THEN [ok |-> FALSE, error |-> Raise("EventDefinitionException", "parse")]
    ELSE [ok |-> TRUE,
          obj |-> [name |-> name, cfg |-> cfg, fields |-> compiled.alts,
                   trait_type |-> IF trait_type = PyNone THEN "TEXT_TYPE"
                                  ELSE trait_type.v]]

\* lines 80-91: the parse of the fields, then the lookup of the type
trait_of(name, cfg, compiled, trait_type) ==
    IF ~compiled.ok
    THEN [ok |-> FALSE, error |-> Raise("EventDefinitionException", "parse")]
    ELSE IF trait_type = PyNone
    THEN [ok |-> FALSE, error |-> Raise("EventDefinitionException", "type")]
    ELSE [ok |-> TRUE,
          obj |-> [name |-> name, cfg |-> cfg, fields |-> compiled.alts,
                   trait_type |-> trait_type.v]]

\* TraitDefinition.__init__: [ok, obj] or [ok, error]
TraitDefinition_init(name, cfg) ==
    IF "fields" \notin DOMAIN cfg
    THEN [ok |-> FALSE, error |-> Raise("EventDefinitionException", "fields")]
    ELSE trait_of(name, cfg, compile_fields(cfg["fields"]),
                  TraitTypeOf(dict_get(cfg, "type", "text")))

(***************************************************************************)
(* Conversions of raw values: int(), float(), str() and                    *)
(* timeutils.normalize_time(timeutils.parse_isotime()).  Each gives        *)
(* [ok |-> TRUE, v |-> object] or [ok |-> FALSE, error |-> exception].     *)
(***************************************************************************)
Digits == {"0", "1", "2", "3", "4", "5", "6", "7", "8", "9"}

digit_val(c) ==
    CASE c = "0" -> 0 [] c = "1" -> 1 [] c = "2" -> 2 [] c = "3" -> 3
      [] c = "4" -> 4 [] c = "5" -> 5 [] c = "6" -> 6 [] c = "7" -> 7
      [] c = "8" -> 8 [] c = "9" -> 9

digit_chr(d) == SubSeq(<<"0", "1", "2", "3", "4", "5", "6", "7", "8", "9">>, d + 1, d + 1)

all_digits(s) == \A i \in 1..Len(s) : s[i] \in Digits

\* the number written by a run of digits
RECURSIVE digits_val(_)
digits_val(s) ==
    IF s = <<>> THEN 0
    ELSE 10 * digits_val(SubSeq(s, 1, Len(s) - 1)) + digit_val(s[Len(s)])

\* the digits that write a natural number
RECURSIVE nat_str(_)
nat_str(n) == IF n < 10 THEN digit_chr(n) ELSE nat_str(n \div 10) \o digit_chr(n % 10)

\* s.strip(): blanks removed at both ends
RECURSIVE strip(_)
strip(s) ==
    IF s # <<>> /\ s[1] = " " THEN strip(Tail(s))
    ELSE IF s # <<>> /\ s[Len(s)] = " " THEN strip(SubSeq(s, 1, Len(s) - 1))
    ELSE s

Ok(v) == [ok |-> TRUE, v |-> v]
Fail(exc) == [ok |-> FALSE, error |-> Raise(exc, "")]

PyFloat(m, e) == [t |-> "float", v |-> <<m, e>>]   \* m * 10^-e
PyDatetime(days, secs, us) == [t |-> "datetime", v |-> <<days, secs, us>>]

RECURSIVE pow10(_)
pow10(e) == IF e = 0 THEN 1 ELSE 10 * pow10(e - 1)

\* a run of digits padded with zeros on the left to n digits
RECURSIVE zero_pad(_, _)
zero_pad(s, n) == IF Len(s) >= n THEN s ELSE zero_pad(<<"0">> \o s, n)

\* int(value)
py_int(value) ==
    CASE value.t = "int" -> Ok(value)
      [] value.t = "bool" -> Ok(PyInt(IF value.v THEN 1 ELSE 0))
      [] value.t = "float" ->
            Ok(PyInt(IF value.v[1] < 0
                     THEN 0 - ((0 - value.v[1]) \div pow10(value.v[2]))
                     ELSE value.v[1] \div pow10(value.v[2])))
      [] value.t = "str" ->
            LET s == strip(value.v)
                signed == s # <<>> /\ s[1] \in {"+", "-"}
                body == IF signed THEN Tail(s) ELSE s
            IN IF body # <<>> /\ all_digits(body)
               THEN Ok(PyInt(IF signed /\ s[1] = "-" THEN 0 - digits_val(body)
                                                     ELSE digits_val(body)))
               ELSE Fail("ValueError")
      [] OTHER -> Fail("TypeError")

\* a float m * 10^-e with no trailing zero in its fraction
RECURSIVE norm_float(_, _)
norm_float(m, e) ==
    IF e > 0 /\ m % 10 = 0 THEN norm_float(m \div 10, e - 1) ELSE PyFloat(m, e)

\* the position of the first '.' of s, 0 when it holds none
RECURSIVE dot_at(_, _)
dot_at(s, i) == IF i > Len(s) THEN 0 ELSE IF s[i] = "." THEN i ELSE dot_at(s, i + 1)

\* float(value), for decimal notation without an exponent
py_float(value) ==
    CASE value.t = "float" -> Ok(value)
      [] value.t = "int" -> Ok(PyFloat(value.v, 0))
      [] value.t = "bool" -> Ok(PyFloat(IF value.v THEN 1 ELSE 0, 0))
      [] value.t = "str" ->
            LET s == strip(value.v)
                signed == s # <<>> /\ s[1] \in {"+", "-"}
                body == IF signed THEN Tail(s) ELSE s
                d == dot_at(body, 1)
                whole == IF d = 0 THEN body ELSE SubSeq(body, 1, d - 1)
                frac == IF d = 0 THEN <<>> ELSE SubSeq(body, d + 1, Len(body))
                mag == digits_val(whole \o frac)
            IN IF (whole \o frac) # <<>> /\ all_digits(whole \o frac)
               THEN Ok(norm_float(IF signed /\ s[1] = "-" THEN 0 - mag ELSE mag,
                                  Len(frac)))
               ELSE Fail("ValueError")
      [] OTHER -> Fail("TypeError")

\* str(value); the text of a container is not spelled out
py_str(value) ==
    CASE value.t = "str" -> Ok(value)
      [] value.t = "int" ->
            Ok(PyStr(IF value.v < 0 THEN <<"-">> \o nat_str(0 - value.v)
                                    ELSE nat_str(value.v)))
      [] value.t = "bool" ->
            Ok(PyStr(IF value.v THEN <<"T", "r", "u", "e">>
                                ELSE <<"F", "a", "l", "s", "e">>))
      [] value.t = "float" ->
            LET mag == IF value.v[1] < 0 THEN 0 - value.v[1] ELSE value.v[1]
                e == value.v[2]
                text == nat_str(mag \div pow10(e)) \o <<".">>
                        \o (IF e = 0 THEN <<"0">> ELSE zero_pad(nat_str(mag % pow10(e)), e))
            IN Ok(PyStr(IF value.v[1] < 0 THEN <<"-">> \o text ELSE text))
      [] value.t = "None" -> Ok(PyStr(<<"N", "o", "n", "e">>))
      [] OTHER -> Ok(PyStr(<<"<", value.t, ">">>))

\* days from 1970-01-01 to the civil date y-m-d
days_from_civil(y, m, d) ==
    LET yy == IF m <= 2 THEN y - 1 ELSE y
        era == yy \div 400
        yoe == yy - era * 400
        mp == IF m > 2 THEN m - 3 ELSE m + 9
        doy == (153 * mp + 2) \div 5 + d - 1
        doe == yoe * 365 + yoe \div 4 - yoe \div 100 + doy
    IN era * 146097 + doe - 719468

num_at(s, i, n) == digits_val(SubSeq(s, i, i + n - 1))
digits_at(s, i, n) == Len(s) >= i + n - 1 /\ all_digits(SubSeq(s, i, i + n - 1))

\* a fraction of a second, as microseconds
frac_us(f) ==
    LET six == SubSeq(f \o <<"0", "0", "0", "0", "0", "0">>, 1, 6)
    IN digits_val(six)

\* the length of the run of digits of s from position i on
RECURSIVE digit_run(_, _)
digit_run(s, i) == IF i <= Len(s) /\ s[i] \in Digits THEN 1 + digit_run(s, i + 1) ELSE 0

\* timeutils.normalize_time(timeutils.parse_isotime(value)), for the form
\* YYYY-MM-DD(T| )HH:MM:SS[.f][Z|+HH:MM|-HH:MM]; a time without a zone is UTC
parse_normalize_time(value) ==
    IF value.t # "str" THEN Fail("TypeError")
    ELSE
    LET s == value.v
        head_ok == /\ Len(s) >= 19
                   /\ digits_at(s, 1, 4) /\ s[5] = "-" /\ digits_at(s, 6, 2)
                   /\ s[8] = "-" /\ digits_at(s, 9, 2) /\ s[11] \in {"T", " "}
                   /\ digits_at(s, 12, 2) /\ s[14] = ":" /\ digits_at(s, 15, 2)
                   /\ s[17] = ":" /\ digits_at(s, 18, 2)
        has_frac == Len(s) >= 21 /\ s[20] = "." /\ digit_run(s, 21) >= 1
        nfrac == IF has_frac THEN digit_run(s, 21) ELSE 0
        zone == SubSeq(s, IF has_frac THEN 21 + nfrac ELSE 20, Len(s))
        zone_ok == \/ zone = <<>>
                   \/ zone = <<"Z">>
                   \/ /\ Len(zone) = 6 /\ zone[1] \in {"+", "-"}
                      /\ digits_at(zone, 2, 2) /\ zone[4] = ":" /\ digits_at(zone, 5, 2)
        offset == IF Len(zone) = 6
                  THEN (IF zone[1] = "-" THEN 0 - 1 ELSE 1)
                       * (num_at(zone, 2, 2) * 3600 + num_at(zone, 5, 2) * 60)
                  ELSE 0
        mo == num_at(s, 6, 2)
        dd == num_at(s, 9, 2)
        hh == num_at(s, 12, 2)
        mi == num_at(s, 15, 2)
        ss == num_at(s, 18, 2)
        range_ok == mo \in 1..12 /\ dd \in 1..31 /\ hh < 24 /\ mi < 60 /\ ss < 60
        local == hh * 3600 + mi * 60 + ss - offset
        shift == IF local < 0 THEN 0 - 1 ELSE IF local >= 86400 THEN 1 ELSE 0
    IN IF head_ok /\ zone_ok /\ range_ok
       THEN Ok(PyDatetime(days_from_civil(num_at(s, 1, 4), mo, dd) + shift,
                          local - shift * 86400,
                          IF has_frac THEN frac_us(SubSeq(s, 21, 20 + nfrac)) ELSE 0))
       ELSE Fail("ValueError")

\* every value taken as text, whatever the declared type
convert_value_text(trait_type, value) == py_str(value)

\* TraitDefinition._convert_value
convert_value(trait_type, value) ==
    CASE trait_type = "INT_TYPE" -> py_int(value)
      [] trait_type = "FLOAT_TYPE" -> py_float(value)
      [] trait_type = "DATETIME_TYPE" -> parse_normalize_time(value)
      [] OTHER -> py_str(value)

\* the values of the matches, None kept
not_none_kept(matches) == matches

\* the values of the matches that are true: None, 0, '' and False left out
RECURSIVE not_falsy(_)
not_falsy(matches) ==
    IF matches = <<>> THEN <<>>
    ELSE (IF Head(matches) \in {PyNone, PyInt(0), PyStr(s_empty), PyBool(FALSE)}
          THEN <<>> ELSE <<Head(matches)>>)
         \o not_falsy(Tail(matches))

\* the values of the matches that are not None
RECURSIVE not_none(_)
not_none(matches) ==
    IF matches = <<>> THEN <<>>
    ELSE (IF Head(matches) = PyNone THEN <<>> ELSE <<Head(matches)>>)
         \o not_none(Tail(matches))

\* line 111: the Trait of the converted value, or the conversion's exception
trait_or_raise(td, value) ==
    IF value.ok
    THEN [kind |-> "Trait", trait |-> Trait(td.name, td.trait_type, value.v)]
    ELSE [kind |-> "raise", error |-> value.error]

\* lines 108-111 taking a trait without a value for an error
first_value_required(td, values) ==
    IF values = <<>> THEN [kind |-> "raise", error |-> Raise("KeyError", td.name)]
    ELSE trait_or_raise(td, convert_value(td.trait_type, values[1]))

\* lines 108-111 going on to the next value when one cannot be converted
RECURSIVE first_value_retrying(_, _)
first_value_retrying(td, values) ==
    IF values = <<>> THEN [kind |-> "None"]
    ELSE IF convert_value(td.trait_type, values[1]).ok \/ Len(values) = 1
         THEN trait_or_raise(td, convert_value(td.trait_type, values[1]))
         ELSE first_value_retrying(td, Tail(values))

\* lines 108-111: None without values, else the first value converted
first_value(td, values) ==
    IF values = <<>> THEN [kind |-> "None"]
    ELSE trait_or_raise(td, convert_value(td.trait_type, values[1]))

\* to_trait with a path that finds no key taken for an error
to_trait_strict(td, notification_body) ==
    IF \E i \in 1..Len(td.fields) : child_find(notification_body, td.fields[i].keys) = <<>>
    THEN [kind |-> "raise", error |-> Raise("KeyError", td.name)]
    ELSE first_value(td, not_none(union_find(notification_body, td.fields)))

\* TraitDefinition.to_trait: a Trait, None, or the exception of the conversion
to_trait(td, notification_body) ==
    first_value(td, not_none(union_find(notification_body, td.fields)))

(***************************************************************************)
(* EventDefinition.  A dictionary whose order of keys matters (the traits  *)
(* of a rule) is a sequence of <<key, value>> pairs with distinct keys.    *)
(***************************************************************************)
DEFAULT_TRAITS ==
    << <<"message_id", [type |-> "text", fields |-> PyStr(Path(<<"message_id">>))]>>,
       <<"service", [type |-> "text", fields |-> PyStr(Path(<<"publisher_id">>))]>>,
       <<"request_id", [type |-> "text", fields |-> PyStr(Path(<<"_context_request_id">>))]>>,
       <<"tenant_id", [type |-> "text", fields |-> PyStr(Path(<<"_context_tenant">>))]>> >>

\* the position of key in an ordered dictionary, 0 when absent
RECURSIVE key_at(_, _, _)
key_at(items, key, i) ==
    IF i > Len(items) THEN 0
    ELSE IF items[i][1] = key THEN i ELSE key_at(items, key, i + 1)

\* d[key] = value putting a second entry beside the one the key has
dict_set_append(items, key, value) == Append(items, <<key, value>>)

\* d[key] = value on an ordered dictionary: in place, or appended
dict_set(items, key, value) ==
    LET i == key_at(items, key, 1)
    IN IF i = 0 THEN Append(items, <<key, value>>)
       ELSE [items EXCEPT ![i] = <<key, value>>]

\* lines 139-143: the entries of event_type split into exclusions and inclusions
RECURSIVE split_types(_, _, _)
split_types(event_type, included, excluded) ==
    IF event_type = <<>> THEN [included |-> included, excluded |-> excluded]
    ELSE LET t == Head(event_type)
         IN IF startswith_bang(t)
            THEN split_types(Tail(event_type), included, Append(excluded, tail1(t)))
            ELSE split_types(Tail(event_type), Append(included, t), excluded)

\* lines 148-155: the trait definitions built one after the other into traits;
\* the first that fails ends the construction
RECURSIVE build_traits(_, _)
put_trait(trait_cfgs, traits, built) ==
    IF ~built.ok THEN [ok |-> FALSE, error |-> built.error]
    ELSE build_traits(Tail(trait_cfgs),
                      dict_set(traits, Head(trait_cfgs)[1], built.obj))

build_traits(trait_cfgs, traits) ==
    IF trait_cfgs = <<>> THEN [ok |-> TRUE, traits |-> traits]
    ELSE put_trait(trait_cfgs, traits,
                   TraitDefinition_init(Head(trait_cfgs)[1], Head(trait_cfgs)[2]))

\* lines 136-137: a string is a list of one entry
type_list(event_type) ==
    IF is_string(event_type) THEN <<event_type.v>> ELSE event_type.v

\* lines 145-146 left out: the inclusions are those declared
widen_never(split) == split.included

\* lines 145-146: '*' is included when there are only exclusions
widen(split) ==
    IF split.excluded # <<>> /\ split.included = <<>>
    THEN Append(split.included, s_star)
    ELSE split.included

\* the object after __init__, or the exception of one of its trait definitions
definition_of(definition_cfg, split, built) ==
    IF ~built.ok THEN [ok |-> FALSE, error |-> built.error]
    ELSE [ok |-> TRUE,
          obj |-> [included_types |-> widen(split),
                   excluded_types |-> split.excluded,
                   traits |-> built.traits,
                   cfg |-> definition_cfg]]

\* lines 129-134 taking a configuration without traits for one with none
EventDefinition_init_lenient(definition_cfg) ==
    IF "event_type" \notin DOMAIN definition_cfg
    THEN [ok |-> FALSE, error |-> Raise("EventDefinitionException", "event_type")]
    ELSE definition_of(definition_cfg,
                       split_types(type_list(definition_cfg["event_type"]),
                                   <<>>, <<>>),
                       build_traits(dict_get(definition_cfg, "traits", <<>>),
                                    build_traits(DEFAULT_TRAITS, <<>>).traits))

\* EventDefinition.__init__: [ok, obj] or [ok, error]
EventDefinition_init(definition_cfg) ==
    IF "event_type" \notin DOMAIN definition_cfg
    THEN [ok |-> FALSE, error |-> Raise("EventDefinitionException", "event_type")]
    ELSE IF "traits" \notin DOMAIN definition_cfg
    THEN [ok |-> FALSE, error |-> Raise("EventDefinitionException", "traits")]
    ELSE definition_of(definition_cfg,
                       split_types(type_list(definition_cfg["event_type"]),
                                   <<>>, <<>>),
                       build_traits(definition_cfg["traits"],
                                    build_traits(DEFAULT_TRAITS, <<>>).traits))

\* the loop of included_type and excluded_type: some pattern of types matches
RECURSIVE any_fnmatch(_, _)
\* the first pattern of the list alone deciding
first_fnmatch(event_type, types) ==
    IF types = <<>> THEN FALSE ELSE fnmatch(event_type, Head(types))

any_fnmatch(event_type, types) ==
    IF types = <<>> THEN FALSE
    ELSE IF fnmatch(event_type, Head(types)) THEN TRUE
    ELSE any_fnmatch(event_type, Tail(types))

\* EventDefinition.included_type
included_type(d, event_type) == any_fnmatch(event_type, d.included_types)

\* EventDefinition.excluded_type
excluded_type(d, event_type) == any_fnmatch(event_type, d.excluded_types)

\* match_type without its test of the exclusions
match_type_included_only(d, event_type) ==
    IF included_type(d, event_type) THEN TRUE ELSE FALSE

\* EventDefinition.match_type
match_type(d, event_type) ==
    IF included_type(d, event_type) /\ ~excluded_type(d, event_type)
    THEN TRUE
    ELSE FALSE

\* x in a list
in_list(x, l) == \E i \in 1..Len(l) : l[i] = x

\* is_catchall asking for '*' to be the only inclusion
is_catchall_only_star(d) ==
    IF d.included_types = <<s_star>> /\ d.excluded_types = <<>>
    THEN TRUE
    ELSE FALSE

\* is_catchall without its test of the exclusions
is_catchall_any_star(d) ==
    IF in_list(s_star, d.included_types) THEN TRUE ELSE FALSE

\* EventDefinition.is_catchall
is_catchall(d) ==
    IF in_list(s_star, d.included_types) /\ d.excluded_types = <<>>
    THEN TRUE
    ELSE FALSE

\* the truth value of an object
truthy(x) ==
    CASE x.t = "None" -> FALSE
      [] x.t = "bool" -> x.v
      [] x.t = "int" -> x.v # 0
      [] x.t = "float" -> x.v[1] # 0
      [] x.t = "str" -> x.v # <<>>
      [] x.t = "list" -> x.v # <<>>
      [] x.t = "dict" -> DOMAIN x.v # {}
      [] OTHER -> TRUE

\* EventDefinition._extract_when; clock is what timeutils.utcnow() returns
when_of(when, clock) ==
    IF truthy(when) THEN parse_normalize_time(when) ELSE Ok(clock)

\* line 191 asking for _context_timestamp before timestamp
extract_when_context_first(body, clock) ==
    when_of(dict_get(body.v, "_context_timestamp",
                     dict_get(body.v, "timestamp", PyNone)),
            clock)

extract_when(body, clock) ==
    when_of(dict_get(body.v, "timestamp",
                     dict_get(body.v, "_context_timestamp", PyNone)),
            clock)

\* lines 201-204: the traits of the notification, in the order of self.traits,
\* None left out; the first conversion that fails ends the call
RECURSIVE extract_traits(_, _, _)
\* a trait whose conversion fails left out like one without a value
keep_trait_skipping(traits, notification_body, acc, t) ==
    IF t.kind \in {"raise", "None"}
    THEN extract_traits(Tail(traits), notification_body, acc)
    ELSE extract_traits(Tail(traits), notification_body, Append(acc, t.trait))

keep_trait(traits, notification_body, acc, t) ==
    CASE t.kind = "raise" -> [ok |-> FALSE, error |-> t.error]
      [] t.kind = "None" -> extract_traits(Tail(traits), notification_body, acc)
      [] OTHER -> extract_traits(Tail(traits), notification_body,
                                 Append(acc, t.trait))

extract_traits(traits, notification_body, acc) ==
    IF traits = <<>> THEN [ok |-> TRUE, traits |-> acc]
    ELSE keep_trait(traits, notification_body, acc,
                    to_trait(Head(traits)[2], notification_body))

\* lines 199-206: the event, or the first exception on the way to it
event_of(event_type, when, traits) ==
    IF ~when.ok THEN [kind |-> "raise", error |-> when.error]
    ELSE IF ~traits.ok THEN [kind |-> "raise", error |-> traits.error]
    ELSE [kind |-> "Event", event |-> Event(event_type, when.v, traits.traits)]

\* the event named after the first pattern of the rule that made it
EventDefinition_to_event_named_by_rule(d, notification_body, clock) ==
    IF "event_type" \notin DOMAIN notification_body.v
    THEN [kind |-> "raise", error |-> Raise("KeyError", "event_type")]
    ELSE event_of(PyStr(d.included_types[1]),
                  extract_when(notification_body, clock),
                  extract_traits(d.traits, notification_body, <<>>))

\* EventDefinition.to_event
EventDefinition_to_event(d, notification_body, clock) ==
    IF "event_type" \notin DOMAIN notification_body.v
    THEN [kind |-> "raise", error |-> Raise("KeyError", "event_type")]
    ELSE event_of(notification_body.v["event_type"],
                  extract_when(notification_body, clock),
                  extract_traits(d.traits, notification_body, <<>>))

(***************************************************************************)
(* NotificationEventsConverter.                                            *)
(***************************************************************************)
\* line 277-279: the definitions built in order; the first that fails ends it
RECURSIVE build_definitions(_, _)
\* a definition that cannot be built left out of the list
put_definition_skipping(cfgs, acc, built) ==
    IF ~built.ok THEN build_definitions(Tail(cfgs), acc)
    ELSE build_definitions(Tail(cfgs), Append(acc, built.obj))

put_definition(cfgs, acc, built) ==
    IF ~built.ok THEN [ok |-> FALSE, error |-> built.error]
    ELSE build_definitions(Tail(cfgs), Append(acc, built.obj))

build_definitions(cfgs, acc) ==
    IF cfgs = <<>> THEN [ok |-> TRUE, definitions |-> acc]
    ELSE put_definition(cfgs, acc, EventDefinition_init(Head(cfgs)))

\* any(d.is_catchall for d in self.definitions)
any_catchall(defs) == \E i \in 1..Len(defs) : is_catchall(defs[i])

CatchallCfg == [event_type |-> PyStr(s_star), traits |-> <<>>]

\* lines 280-282 without the test for a declared catch-all
with_catchall_always(built, catchall) ==
    IF ~built.ok THEN built
    ELSE IF catchall
    THEN [ok |-> TRUE,
          definitions |-> Append(built.definitions,
                                 EventDefinition_init(CatchallCfg).obj)]
    ELSE built

\* lines 280-282 appending the catch-all to an empty table only
with_catchall_if_empty(built, catchall) ==
    IF ~built.ok THEN built
    ELSE IF catchall /\ built.definitions = <<>>
    THEN [ok |-> TRUE,
          definitions |-> Append(built.definitions,
                                 EventDefinition_init(CatchallCfg).obj)]
    ELSE built

\* lines 280-282 left out: the definitions are those declared
with_catchall_never(built, catchall) == built

\* lines 280-282: the catch-all definition appended when asked for and missing
with_catchall(built, catchall) ==
    IF ~built.ok THEN built
    ELSE IF catchall /\ ~any_catchall(built.definitions)
    THEN [ok |-> TRUE,
          definitions |-> Append(built.definitions,
                                 EventDefinition_init(CatchallCfg).obj)]
    ELSE built

\* NotificationEventsConverter.__init__: [ok, definitions] or [ok, error]
Converter_init(config, catchall) ==
    with_catchall(build_definitions(config, <<>>), catchall)

\* lines 288-291 without the break: the last definition that matches
RECURSIVE last_match(_, _, _)
keep_later(defs, event_type, i, later) ==
    IF later # 0 THEN later
    ELSE IF match_type(defs[i], event_type.v) THEN i
    ELSE 0

last_match(defs, event_type, i) ==
    IF i > Len(defs) THEN 0
    ELSE keep_later(defs, event_type, i, last_match(defs, event_type, i + 1))

\* lines 288-291: the index of the first definition that matches, 0 for None
RECURSIVE first_match(_, _, _)
first_match(defs, event_type, i) ==
    IF i > Len(defs) THEN 0
    ELSE IF match_type(defs[i], event_type.v) THEN i
    ELSE first_match(defs, event_type, i + 1)

\* lines 296-297: LOG.debug('Dropping Notification %s (uuid:%s)')
LogRecord(level, msg, args) == [level |-> level, msg |-> msg, args |-> args]

DroppingRecord(notification_body) ==
    LogRecord("debug", "Dropping Notification",
              <<notification_body.v["event_type"], notification_body.v["message_id"]>>)

\* lines 293-300 dropping what the last definition of the table matched
delegate_drop_last(defs, notification_body, clock, found) ==
    IF found = 0 \/ found = Len(defs)
    THEN [edef |-> 0, ret |-> [kind |-> "None"],
          log |-> <<DroppingRecord(notification_body)>>]
    ELSE [edef |-> found,
          ret |-> EventDefinition_to_event(defs[found], notification_body, clock),
          log |-> <<>>]

\* lines 293-300 without the LOG.debug of the drop
delegate_silent(defs, notification_body, clock, found) ==
    IF found = 0 THEN [edef |-> 0, ret |-> [kind |-> "None"], log |-> <<>>]
    ELSE [edef |-> found,
          ret |-> EventDefinition_to_event(defs[found], notification_body, clock),
          log |-> <<>>]

\* lines 293-300: None without a definition, else the definition's to_event
delegate(defs, notification_body, clock, found) ==
    IF found = 0
    THEN [edef |-> 0, ret |-> [kind |-> "None"],
          log |-> <<DroppingRecord(notification_body)>>]
    ELSE [edef |-> found,
          ret |-> EventDefinition_to_event(defs[found], notification_body, clock),
          log |-> <<>>]

\* NotificationEventsConverter.to_event: [edef, ret]
Converter_to_event(defs, notification_body, clock) ==
    IF "event_type" \notin DOMAIN notification_body.v
    THEN [edef |-> 0, ret |-> [kind |-> "raise", error |-> Raise("KeyError", "event_type")],
          log |-> <<>>]
    ELSE IF "message_id" \notin DOMAIN notification_body.v
    THEN [edef |-> 0, ret |-> [kind |-> "raise", error |-> Raise("KeyError", "message_id")],
          log |-> <<>>]
    ELSE delegate(defs, notification_body, clock,
                  first_match(defs, notification_body.v["event_type"], 1))

(***************************************************************************)
(* setup_events.  file is [found, loaded]: whether a configuration file is *)
(* found (lines 305-307), and the list yaml.safe_load gives for it.        *)
(***************************************************************************)
\* lines 309-319: the configuration of the file, [] without a file
events_config_of(file) == IF file.found THEN file.loaded ELSE <<>>

\* lines 310, 317-321: the records given to LOG
setup_log(file) ==
    << IF file.found
       THEN LogRecord("debug", "Event Definitions configuration file", <<>>)
       ELSE LogRecord("debug", "No Event Definitions configuration file found", <<>>),
       LogRecord("info", "Event Definitions", events_config_of(file)) >>

\* lines 323-325 passing the option on as it is
setup_events_unnegated(file, drop) ==
    [events_config |-> events_config_of(file),
     add_catchall |-> drop,
     built |-> Converter_init(events_config_of(file), drop),
     log |-> setup_log(file)]

\* setup_events: the arguments it gives the constructor, what the constructor
\* returns or raises, and the records logged
setup_events(file, drop) ==
    [events_config |-> events_config_of(file),
     add_catchall |-> ~drop,
     built |-> Converter_init(events_config_of(file), ~drop),
     log |-> setup_log(file)]

(***************************************************************************)
(* Inputs.                                                                 *)
(***************************************************************************)
\* the sequences over S of length at most n
SeqsUpTo(S, n) == UNION {[1..k -> S] : k \in 0..n}

\* a dictionary from the pairs <<key, choice>>, a choice of Absent leaving
\* the key out
Absent == [t |-> "absent", v |-> 0]

RECURSIVE dict_of(_)
dict_of(pairs) ==
    IF pairs = <<>> THEN <<>>
    ELSE IF Head(pairs)[2] = Absent THEN dict_of(Tail(pairs))
    ELSE (Head(pairs)[1] :> Head(pairs)[2]) @@ dict_of(Tail(pairs))

\* what timeutils.utcnow() may return
Clocks == {PyDatetime(16000, 100, 0), PyDatetime(16000, 101, 5)}

\* entries of an event_type specification
TypeEntries ==
    {s_star, s_foo, s_not_foo, s_not_image_star, s_star_thing, s_other_thing,
     s_not_other_thing, s_not_test_thing, s_tesq_thing, s_not_star}

\* event_type specifications: one string, or a list of entries
EventTypeSpecs ==
    {PyStr(e) : e \in TypeEntries}
    \cup {PyList(l) : l \in SeqsUpTo(TypeEntries, MaxEntries)}

\* event types of notifications
CandidateTypes ==
    {s_test_thing, s_other_thing, s_random_thing, s_random_whatzit,
     s_image_upload, s_image_dot, s_imagex, s_foo, s_star, s_empty,
     s_compute_instance_create_start, s_image_delete_end,
     s_compute_instance_exists, s_scheduler_run_instance_start}

\* the event_type specifications of the class docstring
DocTypeSpecs ==
    {PyStr(s_compute_instance_star), PyStr(s_star_start),
     PyList(<<s_star_start, s_star_end, s_not_scheduler_star>>)}

\* field paths of trait definitions
PathPool ==
    {Path(<<"payload", "instance_id">>), Path(<<"payload", "instance_uuid">>),
     Path(<<"payload", "image_meta", "disk_gb">>), BadPath}

FieldsSpecs ==
    {PyStr(f) : f \in PathPool}
    \cup {PyList(l) : l \in SeqsUpTo(PathPool, MaxAlts)}

TypeNames == {"text", "int", "Int", "float", "datetime", "bogus"}

\* trait definitions as configured: type and fields are both optional keys
TraitCfgs ==
    {[type |-> ty, fields |-> f] : ty \in TypeNames, f \in FieldsSpecs}
    \cup {[fields |-> f] : f \in FieldsSpecs}
    \cup {[type |-> ty] : ty \in TypeNames}

\* notification bodies for one trait definition
Payloads ==
    {PyDict(dict_of(<< <<"instance_id", a>>, <<"instance_uuid", b>>,
                       <<"image_meta", m>> >>)) :
        a \in {Absent, PyNone, PyStr(s_empty), PyStr(s_10), PyStr(s_abc),
               PyInt(0), PyInt(10), PyBool(FALSE), PyStr(s_ts_trait)},
        b \in {Absent, PyNone, PyStr(s_uuid1)},
        m \in {Absent, PyStr(s_abc), PyDict([disk_gb |-> PyNone]),
               PyDict([disk_gb |-> PyStr(s_20)])}}

TraitBodies ==
    {PyDict(dict_of(<< <<"event_type", PyStr(s_test_thing)>>,
                       <<"message_id", PyStr(s_msg1)>>,
                       <<"payload", pl>> >>)) : pl \in Payloads}

\* rule definitions of a rule table
Tdef(ty, f) == [type |-> ty, fields |-> f]
P_instance_id == Path(<<"payload", "instance_id">>)
P_host == Path(<<"payload", "host">>)

RuleCfgs ==
    {[event_type |-> PyStr(s_test_thing),
      traits |-> << <<"instance_id", Tdef("text", PyStr(P_instance_id))>> >>],
     [event_type |-> PyStr(s_star_thing),
      traits |-> << <<"size", Tdef("int", PyStr(P_instance_id))>> >>],
     [event_type |-> PyStr(s_not_image_star), traits |-> <<>>],
     [event_type |-> PyList(<<s_star>>),
      traits |-> << <<"host", Tdef("text", PyList(<<P_host, P_instance_id>>))>> >>],
     [event_type |-> PyList(<<s_star, s_foo>>),
      traits |-> << <<"service", Tdef("text", PyStr(P_instance_id))>> >>],
     [event_type |-> PyList(<<s_star, s_not_test_thing>>), traits |-> <<>>],
     [event_type |-> PyStr(s_foo),
      traits |-> << <<"host", Tdef("bogus", PyStr(P_host))>> >>]}

\* the traits a rule declares: distinct names, each with its definition
TraitNamePool == {"service", "host", "instance_id", "tenant_id"}

DeclaredTrait(name) ==
    <<name, IF name \in {"service", "instance_id"}
            THEN Tdef("text", PyStr(P_instance_id))
            ELSE Tdef("int", PyList(<<P_host, P_instance_id>>))>>

TraitMaps ==
    {[k \in 1..Len(names) |-> DeclaredTrait(names[k])] :
        names \in {l \in SeqsUpTo(TraitNamePool, MaxTraits) :
                      \A i, j \in 1..Len(l) : i # j => l[i] # l[j]}}

\* rule configurations that lack a required key
BrokenRuleCfgs ==
    {[event_type |-> PyStr(s_test_thing)],
     [traits |-> <<>>],
     [cfg |-> PyNone]}

\* what setup_events may find: no file, or a file of at most one rule
ConfigFiles ==
    {[found |-> FALSE, loaded |-> <<>>]}
    \cup {[found |-> TRUE, loaded |-> l] : l \in SeqsUpTo(RuleCfgs, 1)}

\* notification bodies that may lack event_type or message_id
BareNotifications ==
    {PyDict(dict_of(<< <<"event_type", et>>, <<"message_id", mid>>,
                       <<"timestamp", PyStr(s_ts_test)>> >>)) :
        et \in {Absent, PyStr(s_test_thing)},
        mid \in {Absent, PyStr(s_msg1)}}

\* the callers that use one engine at the same time
Callers == {"a", "b"}

\* the rules of the engine the callers share
ThreadRules ==
    {rule \in RuleCfgs :
        rule.event_type \in {PyStr(s_star_thing), PyStr(s_not_image_star)}}

\* notifications given to the converter
Notif(et, pub, ts, cts, a, h, req, ten) ==
    PyDict(dict_of(<< <<"event_type", PyStr(et)>>,
                      <<"message_id", PyStr(s_msg1)>>,
                      <<"publisher_id", pub>>,
                      <<"timestamp", ts>>,
                      <<"_context_timestamp", cts>>,
                      <<"_context_request_id", req>>,
                      <<"_context_tenant", ten>>,
                      <<"payload", PyDict(dict_of(<< <<"instance_id", a>>,
                                                     <<"host", h>> >>))>> >>))

Notifications ==
    {Notif(et, PyStr(s_svc), ts, Absent, a, Absent, Absent, Absent) :
        et \in {s_test_thing, s_image_upload, s_random_whatzit},
        ts \in {Absent, PyNone, PyStr(s_ts_test), PyStr(s_abc)},
        a \in {Absent, PyNone, PyStr(s_empty), PyStr(s_10), PyStr(s_abc)}}
    \cup {Notif(s_test_thing, pub, ts, cts, PyStr(s_10), h, Absent, Absent) :
        pub \in {Absent, PyStr(s_svc)},
        ts \in {Absent, PyNone, PyStr(s_ts_test), PyStr(s_abc)},
        cts \in {Absent, PyStr(s_ts_context)},
        h \in {Absent, PyStr(s_host1)}}
    \cup {Notif(s_test_thing, pub, PyStr(s_ts_test), Absent, PyStr(s_10), Absent,
                req, ten) :
        pub \in {Absent, PyNone, PyStr(s_svc)},
        req \in {Absent, PyStr(s_req1)},
        ten \in {Absent, PyNone, PyStr(s_tenant1)}}
    \cup {Notif(s_test_thing, PyStr(s_svc), PyStr(s_empty), PyStr(s_ts_context),
                PyStr(s_10), Absent, Absent, Absent)}

\* the notifications of the concurrent callers
ThreadNotifications ==
    {Notif(s_test_thing, PyStr(s_svc), PyStr(s_ts_test), Absent, PyStr(s_10),
           Absent, Absent, Absent),
     Notif(s_test_thing, PyStr(s_svc), Absent, Absent, PyStr(s_empty),
           Absent, Absent, Absent),
     Notif(s_image_upload, Absent, Absent, Absent, PyStr(s_abc),
           Absent, Absent, Absent)}

(***************************************************************************)
(* The state machine.                                                      *)
(***************************************************************************)
NoResult == [kind |-> "nothing"]
NoTrait == [name |-> "", cfg |-> <<>>, fields |-> <<>>, trait_type |-> ""]

\* what every specification starts from, but for its own input
Fresh ==
    /\ pc = "new"
    /\ definitions = <<>>
    /\ error = NoError
    /\ notification = PyNone
    /\ edef = 0
    /\ result = NoResult
    /\ utcnow = PyNone
    /\ tdef = NoTrait
    /\ log = <<>>
    /\ threads = <<>>
    /\ heap = <<>>

\* no configuration of the service: the object is built by its constructor
NoSetup ==
    /\ config_file = [found |-> FALSE, loaded |-> <<>>]
    /\ allow_drop = FALSE

\* a constructor returned the definitions, or raised
Constructed(built) ==
    IF built.ok
    THEN /\ pc' = "ready"
         /\ definitions' = built.definitions
         /\ error' = NoError
    ELSE /\ pc' = "failed"
         /\ definitions' = <<>>
         /\ error' = built.error

\* to_event returned or raised
Returned(r) ==
    /\ edef' = r.edef
    /\ result' = r.ret
    /\ log' = r.log

\* c = NotificationEventsConverter(events_config, add_catchall)
Build ==
    /\ pc = "new"
    /\ Constructed(Converter_init(events_config, add_catchall))
    /\ UNCHANGED thread_vars
    /\ UNCHANGED <<events_config, add_catchall, notification, edef, result,
                   utcnow, trait_cfg, tdef, config_file, allow_drop, log>>

\* the caller is done with what the last call returned or raised: the call's
\* locals are gone, and the object is there for the next call
Release ==
    /\ pc = "ready"
    /\ result # NoResult
    /\ notification' = PyNone
    /\ edef' = 0
    /\ result' = NoResult
    /\ utcnow' = PyNone
    /\ log' = <<>>
    /\ UNCHANGED thread_vars
    /\ UNCHANGED <<pc, events_config, add_catchall, definitions, error,
                   trait_cfg, tdef, config_file, allow_drop>>

\* the definitions with the one at index i moved to the front
MovedToFront(defs, i) ==
    IF i = 0 THEN defs
    ELSE <<defs[i]>> \o SubSeq(defs, 1, i - 1) \o SubSeq(defs, i + 1, Len(defs))

\* c.to_event(n) keeping the definition it used at the front of the list
Convert_reordering ==
    /\ pc = "ready"
    /\ result = NoResult
    /\ \E n \in Notifications, c \in Clocks :
          /\ notification' = n
          /\ utcnow' = c
          /\ Returned(Converter_to_event(definitions, n, c))
          /\ definitions' = MovedToFront(definitions,
                                         Converter_to_event(definitions, n, c).edef)
    /\ UNCHANGED thread_vars
    /\ UNCHANGED <<pc, events_config, add_catchall, error,
                   trait_cfg, tdef, config_file, allow_drop>>

\* c.to_event(n)
Convert ==
    /\ pc = "ready"
    /\ result = NoResult
    /\ \E n \in Notifications, c \in Clocks :
          /\ notification' = n
          /\ utcnow' = c
          /\ Returned(Converter_to_event(definitions, n, c))
    /\ UNCHANGED thread_vars
    /\ UNCHANGED <<pc, events_config, add_catchall, definitions, error,
                   trait_cfg, tdef, config_file, allow_drop>>

Init ==
    /\ Fresh
    /\ NoSetup
    /\ events_config \in SeqsUpTo(RuleCfgs, MaxRules)
    /\ add_catchall \in BOOLEAN
    /\ trait_cfg = <<>>

Next == Build \/ Convert \/ Release

Spec == Init /\ [][Next]_vars

(***************************************************************************)
(* A converter of one declared rule for 'test.thing' whose trait map is    *)
(* any of TraitMaps, with or without the catch-all.                        *)
(***************************************************************************)
InitEvent ==
    /\ Fresh
    /\ NoSetup
    /\ \E tr \in TraitMaps :
          events_config = <<[event_type |-> PyStr(s_test_thing), traits |-> tr]>>
    /\ add_catchall \in BOOLEAN
    /\ trait_cfg = <<>>

NextEvent == Build \/ Convert \/ Release

SpecEvent == InitEvent /\ [][NextEvent]_vars

\* what setup_events did: the constructor's arguments, its outcome, the log
SetUp(r) ==
    /\ events_config' = r.events_config
    /\ add_catchall' = r.add_catchall
    /\ Constructed(r.built)
    /\ log' = r.log

\* c = setup_events()
SetupEvents ==
    /\ pc = "new"
    /\ SetUp(setup_events(config_file, allow_drop))
    /\ UNCHANGED thread_vars
    /\ UNCHANGED <<notification, edef, result, utcnow, trait_cfg, tdef,
                   config_file, allow_drop>>

\* the caller of setup_events is done with the records it logged
Logged ==
    /\ pc = "ready"
    /\ result = NoResult
    /\ log # <<>>
    /\ log' = <<>>
    /\ UNCHANGED thread_vars
    /\ UNCHANGED <<pc, events_config, add_catchall, definitions, error,
                   notification, edef, result, utcnow, trait_cfg, tdef,
                   config_file, allow_drop>>

\* c.to_event(n) for any notification body, also one without its keys
ConvertAny ==
    /\ pc = "ready"
    /\ result = NoResult
    /\ log = <<>>
    /\ \E n \in Notifications \cup BareNotifications, c \in Clocks :
          /\ notification' = n
          /\ utcnow' = c
          /\ Returned(Converter_to_event(definitions, n, c))
    /\ UNCHANGED thread_vars
    /\ UNCHANGED <<pc, events_config, add_catchall, definitions, error,
                   trait_cfg, tdef, config_file, allow_drop>>

\* the engine is built by its constructor, or by setup_events from the
\* configuration of the service
InitSetup ==
    /\ Fresh
    /\ trait_cfg = <<>>
    /\ \/ /\ NoSetup
          /\ events_config \in SeqsUpTo(RuleCfgs, 1)
          /\ add_catchall \in BOOLEAN
       \/ /\ events_config = <<>>
          /\ add_catchall = TRUE
          /\ config_file \in ConfigFiles
          /\ allow_drop \in BOOLEAN

NextSetup == Build \/ SetupEvents \/ Logged \/ ConvertAny \/ Release

SpecSetup == InitSetup /\ [][NextSetup]_vars

\* edef = EventDefinition(events_config[0])
BuildDefinition ==
    /\ pc = "new"
    /\ Constructed(build_definitions(<<events_config[1]>>, <<>>))
    /\ UNCHANGED thread_vars
    /\ UNCHANGED <<events_config, add_catchall, notification, edef, result,
                   utcnow, trait_cfg, tdef, config_file, allow_drop, log>>

\* edef.match_type(event_type)
MatchType ==
    /\ pc = "ready"
    /\ result = NoResult
    /\ \E event_type \in CandidateTypes :
          /\ notification' = PyStr(event_type)
          /\ result' = [kind |-> "bool", v |-> match_type(definitions[1], event_type)]
    /\ UNCHANGED thread_vars
    /\ UNCHANGED <<pc, events_config, add_catchall, definitions, error, edef,
                   utcnow, trait_cfg, tdef, config_file, allow_drop, log>>

InitMatch ==
    /\ Fresh
    /\ NoSetup
    /\ \/ \E et \in EventTypeSpecs :
             events_config = <<[event_type |-> et, traits |-> <<>>]>>
       \/ \E et \in DocTypeSpecs :
             events_config = <<[event_type |-> et, traits |-> <<>>]>>
       \/ \E tr \in TraitMaps :
             events_config = <<[event_type |-> PyStr(s_test_thing), traits |-> tr]>>
       \/ \E broken \in BrokenRuleCfgs : events_config = <<broken>>
    /\ add_catchall = FALSE
    /\ trait_cfg = <<>>

NextMatch == BuildDefinition \/ MatchType \/ Release

SpecMatch == InitMatch /\ [][NextMatch]_vars

(***************************************************************************)
(* One EventDefinition whose event_type is a list of entries, for what the *)
(* order of the entries does.                                              *)
(***************************************************************************)
ListedEntries ==
    {s_star, s_foo, s_not_foo, s_star_thing, s_not_test_thing, s_tesq_thing}

InitListed ==
    /\ Fresh
    /\ NoSetup
    /\ \E l \in SeqsUpTo(ListedEntries, MaxEntries) :
          events_config = <<[event_type |-> PyList(l), traits |-> <<>>]>>
    /\ add_catchall = FALSE
    /\ trait_cfg = <<>>

NextListed == BuildDefinition \/ MatchType \/ Release

SpecListed == InitListed /\ [][NextListed]_vars

\* the constructor returned the trait definition, or raised
ConstructedTrait(built) ==
    IF built.ok
    THEN /\ pc' = "ready"
         /\ tdef' = built.obj
         /\ error' = NoError
    ELSE /\ pc' = "failed"
         /\ tdef' = NoTrait
         /\ error' = built.error

\* tdef = TraitDefinition('test_trait', trait_cfg)
BuildTrait ==
    /\ pc = "new"
    /\ ConstructedTrait(TraitDefinition_init("test_trait", trait_cfg))
    /\ UNCHANGED thread_vars
    /\ UNCHANGED <<events_config, add_catchall, definitions, notification, edef,
                   result, utcnow, trait_cfg, config_file, allow_drop, log>>

\* tdef.to_trait(n)
ToTrait ==
    /\ pc = "ready"
    /\ result = NoResult
    /\ \E n \in TraitBodies :
          /\ notification' = n
          /\ result' = to_trait(tdef, n)
    /\ UNCHANGED thread_vars
    /\ UNCHANGED <<pc, events_config, add_catchall, definitions, error, edef,
                   utcnow, trait_cfg, tdef, config_file, allow_drop, log>>

InitTrait ==
    /\ Fresh
    /\ NoSetup
    /\ events_config = <<>>
    /\ add_catchall = FALSE
    /\ trait_cfg \in TraitCfgs

NextTrait == BuildTrait \/ ToTrait \/ Release

SpecTrait == InitTrait /\ [][NextTrait]_vars

(***************************************************************************)
(* Concurrent callers of to_event on one engine.  Each caller runs          *)
(* NotificationEventsConverter.to_event and, in it, EventDefinition.to_event*)
(* one step at a time: threads[t] holds the locals of the call of caller t, *)
(* heap the list objects the calls created, by reference.                   *)
(***************************************************************************)
Idle ==
    [pc |-> "idle", n |-> PyNone, clock |-> PyNone, i |-> 0, edef |-> 0,
     when |-> PyNone, list |-> 0, k |-> 0, ret |-> NoResult]

\* line 204 filling one list object kept for all calls
new_list_shared(objects) ==
    [ref |-> 1, heap |-> IF objects = <<>> THEN << <<>> >> ELSE objects]

\* line 204: the list comprehension creates a list object
new_list(objects) ==
    [ref |-> Len(objects) + 1, heap |-> Append(objects, <<>>)]

\* the locals of caller t become th
Step(t, th) == threads' = [threads EXCEPT ![t] = th]

\* lines 285-287: the call begins with its notification
T_Call ==
    /\ pc = "ready"
    /\ \E t \in Callers, n \in ThreadNotifications :
          /\ threads[t].pc = "idle"
          /\ Step(t, [threads[t] EXCEPT !.pc = "scan", !.n = n, !.i = 1])
    /\ UNCHANGED <<pc, events_config, add_catchall, definitions, error,
                   notification, edef, result, utcnow, trait_cfg, tdef,
                   config_file, allow_drop, log, heap>>

\* lines 288-291: one turn of the loop over self.definitions
scan_step(th) ==
    IF th.i > Len(definitions) THEN [th EXCEPT !.pc = "chosen"]
    ELSE IF match_type(definitions[th.i], th.n.v["event_type"].v)
    THEN [th EXCEPT !.pc = "chosen", !.edef = th.i]
    ELSE [th EXCEPT !.i = th.i + 1]

T_Scan ==
    /\ \E t \in Callers :
          /\ threads[t].pc = "scan"
          /\ Step(t, scan_step(threads[t]))
    /\ UNCHANGED <<pc, events_config, add_catchall, definitions, error,
                   notification, edef, result, utcnow, trait_cfg, tdef,
                   config_file, allow_drop, log, heap>>

\* lines 293-298: no definition, the drop is logged and None returned
T_Drop ==
    /\ \E t \in Callers :
          /\ threads[t].pc = "chosen"
          /\ threads[t].edef = 0
          /\ log' = Append(log, DroppingRecord(threads[t].n))
          /\ Step(t, [threads[t] EXCEPT !.pc = "done", !.ret = [kind |-> "None"]])
    /\ UNCHANGED <<pc, events_config, add_catchall, definitions, error,
                   notification, edef, result, utcnow, trait_cfg, tdef,
                   config_file, allow_drop, heap>>

\* lines 198-199: the time of the event, or the error of its parse
when_step(th, c, when) ==
    IF when.ok
    THEN [th EXCEPT !.pc = "list", !.clock = c, !.when = when.v]
    ELSE [th EXCEPT !.pc = "done", !.clock = c,
                    !.ret = [kind |-> "raise", error |-> when.error]]

T_When ==
    /\ \E t \in Callers, c \in Clocks :
          /\ threads[t].pc = "chosen"
          /\ threads[t].edef # 0
          /\ Step(t, when_step(threads[t], c, extract_when(threads[t].n, c)))
    /\ UNCHANGED <<pc, events_config, add_catchall, definitions, error,
                   notification, edef, result, utcnow, trait_cfg, tdef,
                   config_file, allow_drop, log, heap>>

\* line 204: the list of the traits is created
list_step(t, made) ==
    /\ heap' = made.heap
    /\ Step(t, [threads[t] EXCEPT !.pc = "traits", !.list = made.ref, !.k = 1])

T_NewList ==
    /\ \E t \in Callers :
          /\ threads[t].pc = "list"
          /\ list_step(t, new_list(heap))
    /\ UNCHANGED <<pc, events_config, add_catchall, definitions, error,
                   notification, edef, result, utcnow, trait_cfg, tdef,
                   config_file, allow_drop, log>>

\* lines 201-204: the next trait definition of the rule gives its trait, which
\* is put into the list unless it is None; its error ends the call
trait_step(t, th, made) ==
    CASE made.kind = "raise" ->
            /\ Step(t, [th EXCEPT !.pc = "done",
                                  !.ret = [kind |-> "raise", error |-> made.error]])
            /\ UNCHANGED heap
      [] made.kind = "None" ->
            /\ Step(t, [th EXCEPT !.k = th.k + 1])
            /\ UNCHANGED heap
      [] OTHER ->
            /\ Step(t, [th EXCEPT !.k = th.k + 1])
            /\ heap' = [heap EXCEPT ![th.list] = Append(@, made.trait)]

T_Trait ==
    /\ \E t \in Callers :
          /\ threads[t].pc = "traits"
          /\ IF threads[t].k > Len(definitions[threads[t].edef].traits)
             THEN /\ Step(t, [threads[t] EXCEPT !.pc = "event"])
                  /\ UNCHANGED heap
             ELSE trait_step(t, threads[t],
                             to_trait(definitions[threads[t].edef].traits[threads[t].k][2],
                                      threads[t].n))
    /\ UNCHANGED <<pc, events_config, add_catchall, definitions, error,
                   notification, edef, result, utcnow, trait_cfg, tdef,
                   config_file, allow_drop, log>>

\* lines 205-206: the event of the list is returned
T_Return ==
    /\ \E t \in Callers :
          /\ threads[t].pc = "event"
          /\ Step(t, [threads[t] EXCEPT
                        !.pc = "done",
                        !.ret = [kind |-> "Event",
                                 event |-> Event(threads[t].n.v["event_type"],
                                                 threads[t].when,
                                                 [ref |-> threads[t].list])]])
    /\ UNCHANGED <<pc, events_config, add_catchall, definitions, error,
                   notification, edef, result, utcnow, trait_cfg, tdef,
                   config_file, allow_drop, log, heap>>

InitThreads ==
    /\ pc = "new"
    /\ definitions = <<>>
    /\ error = NoError
    /\ notification = PyNone
    /\ edef = 0
    /\ result = NoResult
    /\ utcnow = PyNone
    /\ tdef = NoTrait
    /\ trait_cfg = <<>>
    /\ log = <<>>
    /\ NoSetup
    /\ events_config \in SeqsUpTo(ThreadRules, MaxRules)
    /\ add_catchall \in BOOLEAN
    /\ threads = [t \in Callers |-> Idle]
    /\ heap = <<>>

NextThreads ==
    Build \/ T_Call \/ T_Scan \/ T_Drop \/ T_When \/ T_NewList \/ T_Trait \/ T_Return

SpecThreads == InitThreads /\ [][NextThreads]_vars

(***************************************************************************)
(* Properties of the type patterns of one definition (SpecMatch).          *)
(***************************************************************************)
Elems(l) == {l[i] : i \in 1..Len(l)}

\* the rule of SpecMatch, once built, and the entries it was declared with
TheRule == definitions[1]
DeclaredEntries(cfg) ==
    IF cfg["event_type"].t = "str" THEN <<cfg["event_type"].v>>
    ELSE cfg["event_type"].v
DeclaredExclusions(cfg) ==
    {e \in Elems(DeclaredEntries(cfg)) : Len(e) >= 1 /\ e[1] = "!"}
DeclaredInclusions(cfg) == Elems(DeclaredEntries(cfg)) \ DeclaredExclusions(cfg)

MatchReturned == pc = "ready" /\ result.kind = "bool"

SomeIncludes(d, c) == \E p \in Elems(d.included_types) : fnmatch(c, p)
SomeExcludes(d, c) == \E p \in Elems(d.excluded_types) : fnmatch(c, p)

\* C2: match_type(candidate) is true exactly when the candidate matches at
\* least one include pattern and no exclude pattern; an exclusion wins over an
\* inclusion that also matches.
C2_MatchIsIncludedAndNotExcluded ==
    MatchReturned =>
        /\ result.v = (SomeIncludes(TheRule, notification.v)
                       /\ ~SomeExcludes(TheRule, notification.v))
        /\ SomeExcludes(TheRule, notification.v) => result.v = FALSE

\* a candidate that an inclusion and an exclusion both match was refused
C2_Witness ==
    /\ MatchReturned
    /\ SomeIncludes(TheRule, notification.v)
    /\ SomeExcludes(TheRule, notification.v)
    /\ result.v = FALSE

\* C3: a rule declared with exclusions only has the include set {'*'}, matches
\* every event type but those an exclusion matches, and accepts what the same
\* rule with an explicit '*' accepts; a rule with a declared inclusion gets no
\* implicit '*'.
C3_ExclusionOnlyMeansAllBut ==
    pc = "ready" =>
        LET cfg == events_config[1]
            explicit == EventDefinition_init(
                            [cfg EXCEPT !["event_type"] =
                                PyList(<<s_star>> \o DeclaredEntries(cfg))]).obj
        IN /\ (DeclaredInclusions(cfg) = {} /\ DeclaredExclusions(cfg) # {}) =>
                /\ TheRule.included_types = <<s_star>>
                /\ \A c \in CandidateTypes :
                      /\ match_type(TheRule, c) =
                            ~(\E e \in DeclaredExclusions(cfg) : fnmatch(c, Tail(e)))
                      /\ match_type(TheRule, c) = match_type(explicit, c)
                /\ result.kind = "bool" =>
                      result.v = ~(\E e \in DeclaredExclusions(cfg) :
                                        fnmatch(notification.v, Tail(e)))
           /\ DeclaredInclusions(cfg) # {} =>
                /\ Elems(TheRule.included_types) = DeclaredInclusions(cfg)
                /\ Len(TheRule.included_types) =
                      Cardinality({i \in 1..Len(DeclaredEntries(cfg)) :
                                      DeclaredEntries(cfg)[i] \in DeclaredInclusions(cfg)})

\* '!image.*' alone accepted a type that is no image type, and refused one
C3_Witness ==
    /\ MatchReturned
    /\ events_config[1]["event_type"] = PyStr(s_not_image_star)
    /\ TheRule.included_types = <<s_star>>
    /\ notification.v = s_random_thing
    /\ result.v = TRUE

\* C4 as stated: is_catchall holds iff the include set is exactly {'*'} and
\* the exclude set is empty.
C4_Original ==
    pc = "ready" =>
        (is_catchall(TheRule) <=>
            (Elems(TheRule.included_types) = {s_star}
             /\ Elems(TheRule.excluded_types) = {}))

\* C4 as amended: is_catchall holds iff '*' is one of the include patterns,
\* whatever the other inclusions, and the exclude set is empty.
C4_CatchallIffStarIncluded ==
    pc = "ready" =>
        (is_catchall(TheRule) <=>
            (s_star \in Elems(TheRule.included_types)
             /\ Elems(TheRule.excluded_types) = {}))

\* a catch-all whose include set holds more than '*'
C4_Witness ==
    /\ pc = "ready"
    /\ is_catchall(TheRule)
    /\ Cardinality(Elems(TheRule.included_types)) >= 2

\* C5: is_catchall is true for '*' without exclusions, also with other
\* inclusions beside it; it is false whenever an exclusion is declared (the
\* exclusion-only rule and its implicit '*' included) and whenever '*' itself
\* is not declared.
C5_CatchallCases ==
    pc = "ready" =>
        LET cfg == events_config[1]
            et == cfg["event_type"]
        IN /\ is_catchall(TheRule) =
                (s_star \in DeclaredInclusions(cfg) /\ DeclaredExclusions(cfg) = {})
           /\ et \in {PyStr(s_star), PyList(<<s_star>>), PyList(<<s_star, s_foo>>)}
                => is_catchall(TheRule)
           /\ et \in {PyList(<<s_star, s_not_foo>>), PyStr(s_not_image_star),
                      PyList(<<s_not_image_star>>), PyList(<<s_other_thing>>),
                      PyList(<<s_star_thing>>)}
                => ~is_catchall(TheRule)

\* ['*', 'foo'] is a catch-all
C5_Witness ==
    /\ pc = "ready"
    /\ events_config[1]["event_type"] = PyList(<<s_star, s_foo>>)
    /\ is_catchall(TheRule)

(***************************************************************************)
(* Properties of the converter (Spec).                                     *)
(***************************************************************************)
Min(S) == CHOOSE x \in S : \A y \in S : x <= y

Called == pc = "ready" /\ result # NoResult

\* the event type of the notification of the call
CalledType == notification.v["event_type"].v

\* the definitions of the table that accept the event type of the call
Accepting == {i \in 1..Len(definitions) : match_type(definitions[i], CalledType)}

\* C1: to_event delegates to at most one rule, the first in declaration order
\* whose match_type accepts the event type; a later rule is never used when an
\* earlier one matches.
C1_FirstMatchingRuleWins ==
    Called =>
        IF Accepting = {}
        THEN edef = 0 /\ result.kind = "None"
        ELSE /\ edef = Min(Accepting)
             /\ \A j \in 1..(edef - 1) : ~match_type(definitions[j], CalledType)
             /\ result = EventDefinition_to_event(definitions[edef], notification,
                                                  utcnow)

\* two rules accept the type, the later one the narrower, and the first is used
C1_Witness ==
    /\ Called
    /\ Accepting = {1, 2}
    /\ definitions[1].included_types = <<s_star_thing>>
    /\ definitions[2].included_types = <<s_test_thing>>
    /\ edef = 1
    /\ result.kind = "Event"

\* a declared rule is a catch-all: '*' among its entries, and no exclusion
DeclaredCatchall(cfg) ==
    s_star \in DeclaredInclusions(cfg) /\ DeclaredExclusions(cfg) = {}

TraitNames(d) == {d.traits[k][1] : k \in 1..Len(d.traits)}
DefaultNames == {"message_id", "service", "request_id", "tenant_id"}

\* C6: the rule list is the declared rules in declaration order, followed by
\* one synthesized rule {'*', no extra traits} exactly when add_catchall is set
\* and no declared rule is a catch-all.
C6_CatchallAppendedWhenMissing ==
    pc = "ready" =>
        LET n == Len(events_config)
            last == definitions[Len(definitions)]
        IN /\ Len(definitions) >= n
           /\ \A i \in 1..n :
                 /\ definitions[i].cfg = events_config[i]
                 /\ definitions[i] = EventDefinition_init(events_config[i]).obj
           /\ IF add_catchall /\ ~(\E i \in 1..n : DeclaredCatchall(events_config[i]))
              THEN /\ Len(definitions) = n + 1
                   /\ last.included_types = <<s_star>>
                   /\ last.excluded_types = <<>>
                   /\ TraitNames(last) = DefaultNames
                   /\ Len(last.traits) = 4
              ELSE Len(definitions) = n

\* a table of two declared rules, none a catch-all, with the third appended
C6_Witness ==
    /\ pc = "ready"
    /\ add_catchall
    /\ Len(events_config) = 2
    /\ Len(definitions) = 3
    /\ definitions[3].cfg = CatchallCfg

\* C7: an engine built with add_catchall=True never returns None: some rule of
\* its table accepts every event type.  None is returned only by engines built
\* with add_catchall=False.
C7_NoDropWithCatchall ==
    /\ (pc = "ready" /\ add_catchall) =>
          /\ result.kind # "None"
          /\ \A c \in CandidateTypes :
                \E i \in 1..Len(definitions) : match_type(definitions[i], c)
    /\ (Called /\ result.kind = "None") => ~add_catchall

\* no declared rule accepted the type, and the appended catch-all made the event
C7_Witness ==
    /\ Called
    /\ add_catchall
    /\ Len(events_config) >= 1
    /\ edef = Len(events_config) + 1
    /\ result.kind = "Event"

\* the timestamp and every trait of definition d convert without an error
Converts(d) ==
    /\ extract_when(notification, utcnow).ok
    /\ \A k \in 1..Len(d.traits) :
          to_trait(d.traits[k][2], notification).kind # "raise"

\* C8 as stated: without the catch-all, to_event returns None exactly when no
\* declared rule accepts the event type, and returns an event whenever some
\* declared rule accepts it.
C8_Original ==
    (Called /\ ~add_catchall) =>
        /\ (result.kind = "None") = (Accepting = {})
        /\ Accepting # {} => result.kind = "Event"

\* C8 as amended: without the catch-all, to_event returns None exactly when no
\* declared rule accepts the event type; when some declared rule accepts it the
\* call returns that rule's event, or raises the error of the conversion (of
\* the timestamp or of a trait value) that failed.
C8_DropIffNoRuleAccepts ==
    (Called /\ ~add_catchall) =>
        /\ (result.kind = "None") = (Accepting = {})
        /\ Accepting # {} =>
              /\ result.kind \in {"Event", "raise"}
              /\ (result.kind = "Event") = Converts(definitions[Min(Accepting)])

\* a notification dropped by a table of declared rules
C8_Witness ==
    /\ Called
    /\ ~add_catchall
    /\ Len(definitions) >= 1
    /\ result.kind = "None"

(***************************************************************************)
(* Properties of trait extraction (SpecTrait for one trait definition,     *)
(* Spec for the traits of an event).                                       *)
(***************************************************************************)
\* what the notification holds at a path: the object, or Absent
RECURSIVE Resolve(_, _)
Resolve(doc, keys) ==
    IF keys = <<>> THEN doc
    ELSE IF doc.t = "dict" /\ Head(keys) \in DOMAIN doc.v
         THEN Resolve(doc.v[Head(keys)], Tail(keys))
         ELSE Absent

\* the alternatives of trait definition td that are present and not null
Usable(td) ==
    {i \in 1..Len(td.fields) :
        Resolve(notification, td.fields[i].keys) \notin {Absent, PyNone}}

RawAt(td, i) == Resolve(notification, td.fields[i].keys)

\* what to_trait gives for the raw value chosen
GivesValueOf(ret, td, raw) ==
    /\ IF convert_value(td.trait_type, raw).ok
       THEN /\ ret.kind = "Trait"
            /\ ret.trait.value = convert_value(td.trait_type, raw).v
       ELSE ret.kind = "raise"
    /\ (td.trait_type = "TEXT_TYPE" /\ raw.t = "str") =>
          (ret.kind = "Trait" /\ ret.trait.value = raw)

\* C9: to_trait returns the value at the first alternative, in declared order,
\* that is present and not null; absent and null alternatives are skipped, and
\* with the two alternatives swapped the value of the other one is returned.
C9_FirstUsableAlternative ==
    Called =>
        /\ IF Usable(tdef) = {} THEN result.kind = "None"
           ELSE GivesValueOf(result, tdef, RawAt(tdef, Min(Usable(tdef))))
        /\ (Len(tdef.fields) = 2 /\ Usable(tdef) = {1, 2}) =>
              GivesValueOf(to_trait([tdef EXCEPT !.fields = <<@[2], @[1]>>],
                                    notification),
                           tdef, RawAt(tdef, 2))

\* the first alternative is null and the value of the second is returned
C9_Witness ==
    /\ Called
    /\ Len(tdef.fields) = 2
    /\ RawAt(tdef, 1) = PyNone
    /\ RawAt(tdef, 2) = PyStr(s_uuid1)
    /\ result.kind = "Trait"
    /\ result.trait.value = PyStr(s_uuid1)

EventReturned == Called /\ result.kind = "Event"

EventTraitNames == {result.event.traits[k].name : k \in 1..Len(result.event.traits)}

\* the trait definitions of the rule that made the event
UsedTraits == definitions[edef].traits

\* a trait spec whose every alternative is absent or null is left out
NullSpecsLeftOut ==
    \A k \in 1..Len(UsedTraits) :
        (UsedTraits[k][1] \in EventTraitNames) = (Usable(UsedTraits[k][2]) # {})

\* C10 as stated: no trait of an event has a null or empty value, and a trait
\* spec whose every alternative is absent or null contributes no trait.
C10_Original ==
    EventReturned =>
        /\ \A k \in 1..Len(result.event.traits) :
              /\ result.event.traits[k].value # PyNone
              /\ result.event.traits[k].value # PyStr(s_empty)
        /\ NullSpecsLeftOut

\* C10 as amended: no trait of an event has a null value, and a trait spec
\* contributes a trait exactly when one of its alternatives is present and not
\* null; only null counts as missing, so a text trait whose first such value is
\* the empty string is in the event with that empty value.
C10_NoNullTrait ==
    EventReturned =>
        /\ \A k \in 1..Len(result.event.traits) :
              /\ result.event.traits[k].value.t \in {"str", "int", "float", "datetime"}
              /\ result.event.traits[k].value = PyStr(s_empty) =>
                    \E j \in 1..Len(UsedTraits) :
                        /\ UsedTraits[j][1] = result.event.traits[k].name
                        /\ UsedTraits[j][2].trait_type = "TEXT_TYPE"
                        /\ Usable(UsedTraits[j][2]) # {}
                        /\ RawAt(UsedTraits[j][2], Min(Usable(UsedTraits[j][2])))
                              = PyStr(s_empty)
        /\ NullSpecsLeftOut

\* the rule's instance_id trait finds null only, and the event has no such trait
C10_Witness ==
    /\ EventReturned
    /\ \E k \in 1..Len(UsedTraits) :
          /\ UsedTraits[k][1] = "instance_id"
          /\ RawAt(UsedTraits[k][2], 1) = PyNone
    /\ "instance_id" \notin EventTraitNames
    /\ "message_id" \in EventTraitNames

(***************************************************************************)
(* Properties of the default traits and of the trait map of a rule (Spec). *)
(***************************************************************************)
\* the notification field a default trait is read from
DefaultSource(name) ==
    CASE name = "message_id" -> "message_id"
      [] name = "service" -> "publisher_id"
      [] name = "request_id" -> "_context_request_id"
      [] name = "tenant_id" -> "_context_tenant"

\* the trait names a rule configuration declares, and in which order
DeclaredNameSeq(cfg) == [k \in 1..Len(cfg.traits) |-> cfg.traits[k][1]]
DeclaredNames(cfg) == Elems(DeclaredNameSeq(cfg))

\* the trait definition a built rule holds under a name
TraitAt(d, name) == d.traits[key_at(d.traits, name, 1)][2]

\* the defaults a rule did not declare again
PlainDefaults(d) == DefaultNames \ DeclaredNames(d.cfg)

\* the timestamp converts, and so does every trait the rule itself declares
DeclaredConvert(d) ==
    /\ extract_when(notification, utcnow).ok
    /\ \A name \in DeclaredNames(d.cfg) :
          to_trait(TraitAt(d, name), notification).kind # "raise"

\* C11: every built rule holds the four default traits, each read as text
\* from its own notification field unless the rule declares the name again;
\* a default whose field is absent from the notification is left out of the
\* event and raises nothing, so the call returns an event whenever the
\* timestamp and the rule's own traits convert.
C11_AbsentDefaultsLeftOut ==
    /\ pc = "ready" =>
          \A i \in 1..Len(definitions) :
              /\ DefaultNames \subseteq TraitNames(definitions[i])
              /\ \A name \in PlainDefaults(definitions[i]) :
                    /\ TraitAt(definitions[i], name).fields
                          = <<Path(<<DefaultSource(name)>>)>>
                    /\ TraitAt(definitions[i], name).trait_type = "TEXT_TYPE"
    /\ (Called /\ edef # 0) =>
          /\ (result.kind = "Event") = DeclaredConvert(definitions[edef])
          /\ result.kind = "Event" =>
                \A name \in PlainDefaults(definitions[edef]) :
                    (name \in EventTraitNames)
                        = (/\ DefaultSource(name) \in DOMAIN notification.v
                           /\ notification.v[DefaultSource(name)] # PyNone)

\* no publisher_id and no _context_tenant in the notification: the event has a
\* request_id but neither a service nor a tenant_id
C11_Witness ==
    /\ EventReturned
    /\ PlainDefaults(definitions[edef]) = DefaultNames
    /\ "publisher_id" \notin DOMAIN notification.v
    /\ "_context_tenant" \notin DOMAIN notification.v
    /\ EventTraitNames = {"message_id", "request_id"}

\* the names of a rule's trait map, in the order of the map
NameSeq(d) == [k \in 1..Len(d.traits) |-> d.traits[k][1]]

IsNewName(name) == name \notin DefaultNames

\* C12: the trait map of a built rule holds the four default names, then the
\* declared names that are not defaults in declaration order, each name once;
\* a declared trait named as a default takes that default's place with the
\* rule's definition, and the map has 4 plus the number of new names entries.
C12_TraitMapMerge ==
    (pc = "ready" /\ Len(definitions) = 1) =>
        LET d == definitions[1]
            cfg == events_config[1]
        IN /\ NameSeq(d) = <<"message_id", "service", "request_id", "tenant_id">>
                              \o SelectSeq(DeclaredNameSeq(cfg), IsNewName)
           /\ \A i, j \in 1..Len(d.traits) : i # j => NameSeq(d)[i] # NameSeq(d)[j]
           /\ TraitNames(d) = DefaultNames \cup DeclaredNames(cfg)
           /\ Len(d.traits) = 4 + Cardinality(DeclaredNames(cfg) \ DefaultNames)
           /\ \A k \in 1..Len(cfg.traits) :
                 /\ TraitAt(d, cfg.traits[k][1]).name = cfg.traits[k][1]
                 /\ TraitAt(d, cfg.traits[k][1]).cfg = cfg.traits[k][2]
           /\ \A name \in PlainDefaults(d) :
                 /\ TraitAt(d, name).name = name
                 /\ TraitAt(d, name).fields = <<Path(<<DefaultSource(name)>>)>>
                 /\ TraitAt(d, name).trait_type = "TEXT_TYPE"

\* a rule declaring host, service and instance_id: service stays second with
\* the rule's definition, host and instance_id follow the defaults
C12_Witness ==
    /\ pc = "ready"
    /\ Len(definitions) = 1
    /\ DeclaredNameSeq(events_config[1]) = <<"host", "service", "instance_id">>
    /\ NameSeq(definitions[1])
          = <<"message_id", "service", "request_id", "tenant_id", "host",
              "instance_id">>
    /\ TraitAt(definitions[1], "service").fields = <<P_instance_id>>

(***************************************************************************)
(* Properties of the generation time of an event (Spec).                   *)
(***************************************************************************)
\* "2013-08-08 21:06:37.803826" and "2013-08-08 22:06:37" as UTC datetimes:
\* days since 1970-01-01, seconds of the day, microseconds
TimeOfTimestamp == PyDatetime(15925, 75997, 803826)
TimeOfContextTimestamp == PyDatetime(15925, 79597, 0)

HasField(name) == name \in DOMAIN notification.v

\* C13: the generation time of the event is that of the timestamp field when
\* the notification has both timestamp and _context_timestamp, that of
\* _context_timestamp when it has only that field, and the current time when
\* it has neither.
C13_WhenPrecedence ==
    EventReturned =>
        /\ (HasField("timestamp") /\ HasField("_context_timestamp")
            /\ notification.v["timestamp"] = PyStr(s_ts_test)) =>
              result.event.generated = TimeOfTimestamp
        /\ (~HasField("timestamp") /\ HasField("_context_timestamp")) =>
              result.event.generated = TimeOfContextTimestamp
        /\ (~HasField("timestamp") /\ ~HasField("_context_timestamp")) =>
              result.event.generated = utcnow

\* both fields are there and the event carries the time of timestamp
C13_Witness ==
    /\ EventReturned
    /\ HasField("timestamp")
    /\ HasField("_context_timestamp")
    /\ notification.v["_context_timestamp"] = PyStr(s_ts_context)
    /\ result.event.generated = TimeOfTimestamp
    /\ result.event.generated # utcnow

(***************************************************************************)
(* Properties of the engine built from an empty configuration (SpecSetup). *)
(***************************************************************************)
\* setup_events has just returned: its records are in the log
SetupReturned ==
    /\ pc = "ready"
    /\ Len(log) = 2
    /\ log[2].msg = "Event Definitions"

\* the notification of the call carries event_type and message_id
WellFormed == HasField("event_type") /\ HasField("message_id")

\* the timestamp of the notification is a string that is not a time
BadTimestamp ==
    /\ HasField("timestamp")
    /\ notification.v["timestamp"] = PyStr(s_abc)

\* the one rule of the table is the catch-all of the four default traits
OnlyTheCatchall ==
    /\ Len(definitions) = 1
    /\ is_catchall(definitions[1])
    /\ definitions[1].included_types = <<s_star>>
    /\ definitions[1].excluded_types = <<>>
    /\ NameSeq(definitions[1]) = <<"message_id", "service", "request_id", "tenant_id">>
    /\ PlainDefaults(definitions[1]) = DefaultNames

\* setup_events without a configuration file gives the constructor an empty
\* configuration, and add_catchall as the negation of the option
SetupWithoutFile ==
    (SetupReturned /\ ~config_file.found) =>
        (events_config = <<>> /\ add_catchall = ~allow_drop)

\* C14 as stated: an engine built from an empty configuration with
\* add_catchall has exactly one rule, the catch-all with only the four default
\* traits, and to_event returns an event of at most 4 traits for every
\* notification.
C14_Original ==
    /\ SetupWithoutFile
    /\ (pc = "ready" /\ events_config = <<>> /\ add_catchall) =>
          /\ OnlyTheCatchall
          /\ (Called /\ WellFormed) =>
                /\ result.kind = "Event"
                /\ Len(result.event.traits) <= 4

\* C14 as amended: an engine built from an empty configuration with
\* add_catchall has exactly one rule, the catch-all with only the four default
\* traits; to_event never returns None for a notification that carries
\* event_type and message_id: it returns an event of at most 4 traits, unless
\* the timestamp of the notification cannot be parsed, and then the error of
\* the parse is raised instead.
C14_EmptyConfigWithCatchall ==
    /\ SetupWithoutFile
    /\ (pc = "ready" /\ events_config = <<>> /\ add_catchall) =>
          /\ OnlyTheCatchall
          /\ (Called /\ WellFormed) =>
                /\ edef = 1
                /\ IF BadTimestamp
                   THEN result.kind = "raise" /\ result.error.exc = "ValueError"
                   ELSE /\ result.kind = "Event"
                        /\ Len(result.event.traits) <= 4
                        /\ EventTraitNames \subseteq DefaultNames

\* setup_events found no file and dropping is not allowed; the engine it built
\* turned a notification into an event of the default traits
C14_Witness ==
    /\ Called
    /\ ~config_file.found
    /\ ~allow_drop
    /\ events_config = <<>>
    /\ add_catchall
    /\ OnlyTheCatchall
    /\ result.kind = "Event"
    /\ EventTraitNames = {"message_id", "service", "request_id", "tenant_id"}

\* C15: an engine built from an empty configuration without add_catchall, as
\* setup_events builds it when there is no file and dropping is allowed, has no
\* rule, and to_event returns None for every notification that carries
\* event_type and message_id.
C15_EmptyConfigDropsAll ==
    /\ (SetupReturned /\ ~config_file.found /\ allow_drop) =>
          (events_config = <<>> /\ ~add_catchall)
    /\ (pc = "ready" /\ events_config = <<>> /\ ~add_catchall) =>
          /\ definitions = <<>>
          /\ (Called /\ WellFormed) => (result.kind = "None" /\ edef = 0)

\* setup_events found no file and dropping is allowed; the engine it built
\* dropped a notification
C15_Witness ==
    /\ Called
    /\ WellFormed
    /\ ~config_file.found
    /\ allow_drop
    /\ events_config = <<>>
    /\ ~add_catchall
    /\ definitions = <<>>
    /\ result.kind = "None"

(***************************************************************************)
(* Properties of the errors of a definition (SpecMatch, SpecTrait).        *)
(***************************************************************************)
\* the required key a rule configuration lacks, "" when it has both
MissingKey(cfg) ==
    IF "event_type" \notin DOMAIN cfg THEN "event_type"
    ELSE IF "traits" \notin DOMAIN cfg THEN "traits"
    ELSE ""

\* C16: building a rule from a configuration without event_type or without
\* traits raises EventDefinitionException naming the missing key, and there is
\* no rule object; a configuration with both keys is not refused for a key.
C16_MissingKeyIsDefinitionError ==
    pc # "new" =>
        IF MissingKey(events_config[1]) # ""
        THEN /\ pc = "failed"
             /\ definitions = <<>>
             /\ error = Raise("EventDefinitionException", MissingKey(events_config[1]))
        ELSE /\ pc = "ready"
             /\ error = NoError
             /\ Len(definitions) = 1

\* a configuration with event_type and without traits was refused
C16_Witness ==
    /\ pc = "failed"
    /\ "event_type" \in DOMAIN events_config[1]
    /\ "traits" \notin DOMAIN events_config[1]
    /\ error.exc = "EventDefinitionException"
    /\ error.msg = "traits"
    /\ definitions = <<>>

\* the paths a fields specification lists
ListedPaths(fields) == IF fields.t = "str" THEN <<fields.v>> ELSE fields.v

\* the fields specification does not parse: one of its paths does not, or it
\* lists no path at all
Unparsable(fields) ==
    \/ ListedPaths(fields) = <<>>
    \/ \E i \in 1..Len(ListedPaths(fields)) : ListedPaths(fields)[i] = BadPath

\* the kind a type name stands for, whatever its case; "" for none of the four
KindOf(type_name) ==
    CASE type_name = "text" -> "TEXT_TYPE"
      [] type_name \in {"int", "Int"} -> "INT_TYPE"
      [] type_name = "float" -> "FLOAT_TYPE"
      [] type_name = "datetime" -> "DATETIME_TYPE"
      [] OTHER -> ""

DeclaredKind(cfg) == IF "type" \in DOMAIN cfg THEN KindOf(cfg.type) ELSE "TEXT_TYPE"

\* why a trait configuration is refused, "" when it is not
Refusal(cfg) ==
    IF "fields" \notin DOMAIN cfg THEN "fields"
    ELSE IF Unparsable(cfg.fields) THEN "parse"
    ELSE IF DeclaredKind(cfg) = "" THEN "type"
    ELSE ""

\* C17: building a trait definition raises EventDefinitionException when the
\* fields key is absent, when a path of fields does not parse, or when the type
\* is none of text, int, float and datetime; otherwise it succeeds with the
\* declared kind, and with text when there is no type key.
C17_TraitDefinitionErrors ==
    pc # "new" =>
        IF Refusal(trait_cfg) # ""
        THEN /\ pc = "failed"
             /\ tdef = NoTrait
             /\ error = Raise("EventDefinitionException", Refusal(trait_cfg))
        ELSE /\ pc = "ready"
             /\ error = NoError
             /\ tdef.trait_type = DeclaredKind(trait_cfg)
             /\ tdef.fields = ListedPaths(trait_cfg.fields)
             /\ "type" \notin DOMAIN trait_cfg => tdef.trait_type = "TEXT_TYPE"

\* a trait definition of a type that is not known was refused
C17_Witness ==
    /\ pc = "failed"
    /\ "fields" \in DOMAIN trait_cfg
    /\ ~Unparsable(trait_cfg.fields)
    /\ trait_cfg.type = "bogus"
    /\ error = Raise("EventDefinitionException", "type")

(***************************************************************************)
(* Properties of what to_event leaves behind (Spec).                       *)
(***************************************************************************)
\* the value _extract_when reads the time from, PyNone without one
WhenValue ==
    IF HasField("timestamp") THEN notification.v["timestamp"]
    ELSE IF HasField("_context_timestamp") THEN notification.v["_context_timestamp"]
    ELSE PyNone

\* the call read the clock: the notification gave it no time
ClockRead == edef # 0 /\ WhenValue \in {PyNone, PyStr(s_empty)}

\* the same call at any other time
SameAtAnyTime ==
    \A c \in Clocks : Converter_to_event(definitions, notification, c).ret = result

\* C18 as stated: to_event performs no I/O, also when the notification is
\* dropped (nothing is logged by the engine), and its result depends only on
\* the notification and the rule table.
C18_Original ==
    Called => (log = <<>> /\ SameAtAnyTime)

\* C18 as amended: the only I/O of to_event is one debug record given to the
\* module's logger when no rule matches and None is returned, naming the event
\* type and the message id; nothing is logged on any other path.  The result
\* depends only on the notification and the rule table, and on the current
\* time when the notification gives no time of its own.
C18_OnlyTheDropIsLogged ==
    Called =>
        /\ log = IF result.kind = "None"
                 THEN <<[level |-> "debug", msg |-> "Dropping Notification",
                         args |-> <<notification.v["event_type"],
                                    notification.v["message_id"]>>]>>
                 ELSE <<>>
        /\ ~ClockRead => SameAtAnyTime
        /\ (ClockRead /\ result.kind = "Event") => result.event.generated = utcnow

\* a dropped notification, and the record of the drop in the log
C18_Witness ==
    /\ Called
    /\ result.kind = "None"
    /\ Len(log) = 1
    /\ log[1].level = "debug"
    /\ log[1].args[1] = PyStr(s_image_upload)

\* the engine as its constructor built it
AsBuilt == Converter_init(events_config, add_catchall).definitions

\* C19: a call of to_event, whether it returns an event, returns None or
\* raises, leaves the rule list, every rule's include and exclude patterns and
\* trait map as they were, and the notification is one of those passed in; so
\* the same notification, when it carries a time of its own, converted again
\* on the engine as it is after the call gives the same result.
C19_EngineUnchanged ==
    [][pc = "ready" =>
          /\ definitions' = definitions
          /\ (result = NoResult /\ result' # NoResult) =>
                /\ notification' \in Notifications
                /\ ~ClockRead' =>
                      \A c \in Clocks :
                          Converter_to_event(definitions', notification', c).ret
                              = result']_vars

\* an engine of two rules after a call that returned an event: it is as built
C19_Witness ==
    /\ Called
    /\ result.kind = "Event"
    /\ ~ClockRead
    /\ Len(definitions) = 2
    /\ edef = 2
    /\ definitions = AsBuilt

(***************************************************************************)
(* Properties of concurrent calls (SpecThreads).                           *)
(***************************************************************************)
\* the call of caller t has returned or raised
Done(t) == threads[t].pc = "done"

\* what the call of a caller gives when it runs alone
Alone(th) == Converter_to_event(definitions, th.n, th.clock)

\* the call gave what it gives alone: the same rule, and the same event (type,
\* time and traits), None or error
SameAsAlone(th, alone) ==
    /\ th.edef = alone.edef
    /\ th.ret.kind = alone.ret.kind
    /\ th.ret.kind = "raise" => th.ret.error = alone.ret.error
    /\ th.ret.kind = "Event" =>
          /\ th.ret.event.event_type = alone.ret.event.event_type
          /\ th.ret.event.generated = alone.ret.event.generated
          /\ heap[th.ret.event.traits.ref] = alone.ret.event.traits

\* C20: under every interleaving of the calls of several callers on one
\* engine, each call gives what it gives when run alone, and the events of two
\* calls hold different trait list objects.
C20_ConcurrentCallsIndependent ==
    pc = "ready" =>
        /\ \A t \in Callers : Done(t) => SameAsAlone(threads[t], Alone(threads[t]))
        /\ \A t, u \in Callers :
              (t # u /\ Done(t) /\ Done(u)
               /\ threads[t].ret.kind = "Event" /\ threads[u].ret.kind = "Event") =>
                  threads[t].ret.event.traits.ref # threads[u].ret.event.traits.ref

\* both callers got an event for their own notification from the same rule,
\* each with a list of its own
C20_Witness ==
    /\ pc = "ready"
    /\ \A t \in Callers : Done(t) /\ threads[t].ret.kind = "Event"
    /\ threads["a"].n # threads["b"].n
    /\ threads["a"].edef = threads["b"].edef
    /\ threads["a"].ret.event.traits.ref # threads["b"].ret.event.traits.ref
    /\ heap[threads["a"].ret.event.traits.ref] # heap[threads["b"].ret.event.traits.ref]
    /\ Len(heap) = 2

(***************************************************************************)
(* Properties of the patterns of a rule (SpecMatch).                       *)
(***************************************************************************)
\* the rule of SpecMatch was declared with this event_type
DeclaredAs(et) == events_config[1].event_type = et

\* the event type match_type was asked about
Asked == notification.v

StartsWith(t, prefix) ==
    Len(t) >= Len(prefix) /\ SubSeq(t, 1, Len(prefix)) = prefix

EndsWith(t, suffix) ==
    Len(t) >= Len(suffix) /\ SubSeq(t, Len(t) - Len(suffix) + 1, Len(t)) = suffix

\* C21: patterns are shell globs, '*' any run of characters, dots included,
\* and '?' one character: 'compute.instance.*' accepts the types that begin
\* with 'compute.instance.', '*.start' those that end with '.start', '!image.*'
\* all but those that begin with 'image.', ['*.start', '*.end',
\* '!scheduler.*'] those that end with '.start' or '.end' and do not begin with
\* 'scheduler.', and 'tes?.thing' accepts 'test.thing'.
C21_GlobExamples ==
    MatchReturned =>
        /\ DeclaredAs(PyStr(s_compute_instance_star)) =>
              result.v = StartsWith(Asked, SubSeq(s_compute_instance_star, 1, 17))
        /\ DeclaredAs(PyStr(s_star_start)) =>
              result.v = EndsWith(Asked, Tail(s_star_start))
        /\ DeclaredAs(PyStr(s_not_image_star)) =>
              result.v = ~StartsWith(Asked, s_image_dot)
        /\ DeclaredAs(PyList(<<s_star_start, s_star_end, s_not_scheduler_star>>)) =>
              result.v = /\ \/ EndsWith(Asked, Tail(s_star_start))
                            \/ EndsWith(Asked, Tail(s_star_end))
                         /\ ~StartsWith(Asked, SubSeq(s_not_scheduler_star, 2, 11))
        /\ DeclaredAs(PyStr(s_tesq_thing)) =>
              result.v = (/\ Len(Asked) = 10
                          /\ SubSeq(Asked, 1, 3) = SubSeq(s_test_thing, 1, 3)
                          /\ SubSeq(Asked, 5, 10) = SubSeq(s_test_thing, 5, 10))

\* the rule ['*.start', '*.end', '!scheduler.*'] accepted 'image.delete.end',
\* the '*' of '*.end' standing for 'image.delete'
C21_Witness ==
    /\ MatchReturned
    /\ DeclaredAs(PyList(<<s_star_start, s_star_end, s_not_scheduler_star>>))
    /\ Asked = s_image_delete_end
    /\ result.v = TRUE

(***************************************************************************)
(* Properties of the value of a trait (SpecTrait).                         *)
(***************************************************************************)
\* the value to_trait picked: the first alternative present and not null
Picked == RawAt(tdef, Min(Usable(tdef)))

HasPicked == Called /\ tdef # NoTrait /\ Usable(tdef) # {}

GaveValue(v) == result.kind = "Trait" /\ result.trait.value = v

\* C22: the selected value is coerced to the declared type: int gives 10 for
\* '10', float gives 10.0 for '10', datetime gives 2013-08-08 21:05:37.123456
\* UTC for '2013-08-08 21:05:37.123456', text gives '10' for the integer 10;
\* the trait carries the name of its definition and the declared type.
C22_Coercions ==
    HasPicked =>
        /\ (tdef.trait_type = "INT_TYPE" /\ Picked = PyStr(s_10)) =>
              GaveValue(PyInt(10))
        /\ (tdef.trait_type = "FLOAT_TYPE" /\ Picked = PyStr(s_10)) =>
              GaveValue(PyFloat(10, 0))
        /\ (tdef.trait_type = "DATETIME_TYPE" /\ Picked = PyStr(s_ts_trait)) =>
              GaveValue(PyDatetime(15925, 21 * 3600 + 5 * 60 + 37, 123456))
        /\ (tdef.trait_type = "TEXT_TYPE" /\ Picked = PyInt(10)) =>
              GaveValue(PyStr(s_10))
        /\ result.kind = "Trait" =>
              /\ result.trait.name = "test_trait"
              /\ result.trait.dtype = DeclaredKind(trait_cfg)

\* a datetime trait was made of the time string of the payload
C22_Witness ==
    /\ HasPicked
    /\ DeclaredKind(trait_cfg) = "DATETIME_TYPE"
    /\ Picked = PyStr(s_ts_trait)
    /\ GaveValue(PyDatetime(15925, 75937, 123456))
\* the alternatives of tdef after the picked one whose value could be converted
LaterConvertible ==
    {i \in Usable(tdef) :
        /\ i > Min(Usable(tdef))
        /\ convert_value(tdef.trait_type, RawAt(tdef, i)).ok}

\* C23: when the first present, non-null value cannot be converted to the
\* declared type, to_trait raises the error of that conversion; it does not go
\* on to a later alternative, even one whose value could be converted.
C23_NoRetryAfterFailure ==
    (HasPicked /\ ~convert_value(tdef.trait_type, Picked).ok) =>
        /\ result.kind = "raise"
        /\ result.error = convert_value(tdef.trait_type, Picked).error

\* an int trait over 'abc' then '20' raised ValueError
C23_Witness ==
    /\ HasPicked
    /\ tdef.trait_type = "INT_TYPE"
    /\ Picked = PyStr(s_abc)
    /\ LaterConvertible # {}
    /\ result.kind = "raise"
    /\ result.error.exc = "ValueError"

(***************************************************************************)
(* Properties of the events of one rule (SpecEvent).                       *)
(***************************************************************************)
\* the positions, in the trait map of definition d, of the traits whose
\* conversion fails on the notification of the call
Failing(d) ==
    {k \in 1..Len(d.traits) : to_trait(d.traits[k][2], notification).kind = "raise"}

\* the positions of the traits of d that the notification gives a value
Giving(d) ==
    {k \in 1..Len(d.traits) : to_trait(d.traits[k][2], notification).kind = "Trait"}

\* C24: when the conversion of any trait of the selected rule fails, at any
\* position of its trait map, EventDefinition.to_event and
\* NotificationEventsConverter.to_event both raise: no event is returned that
\* lacks the failing trait.
C24_CoercionErrorPropagates ==
    (Called /\ edef # 0 /\ Failing(definitions[edef]) # {}) =>
        /\ result.kind = "raise"
        /\ EventDefinition_to_event(definitions[edef], notification, utcnow).kind
              = "raise"
        /\ extract_when(notification, utcnow).ok =>
              result.error = to_trait(definitions[edef].traits[
                                         Min(Failing(definitions[edef]))][2],
                                      notification).error

\* the failing trait is neither the first nor the last of the rule's traits
\* that the notification speaks of, and the call raised its ValueError
C24_Witness ==
    /\ Called
    /\ edef # 0
    /\ extract_when(notification, utcnow).ok
    /\ \E k \in Failing(definitions[edef]) :
          /\ \E i \in Giving(definitions[edef]) : i < k
          /\ \E j \in Giving(definitions[edef]) : j > k
    /\ result.kind = "raise"
    /\ result.error.exc = "ValueError"
\* the names that only a rule other than the selected one declares
DeclaredElsewhere ==
    UNION {DeclaredNames(definitions[i].cfg) : i \in 1..Len(definitions) \ {edef}}
    \ TraitNames(definitions[edef])

\* C27: in every event to_event returns the trait names are pairwise distinct,
\* each is a key of the trait map of the selected rule (none is declared only
\* by a rule that was not selected), the traits are at most as many as the
\* trait definitions of the selected rule, and the event type is the
\* event_type of the notification, not a pattern of the rule.
C27_EventShape ==
    EventReturned =>
        /\ \A i, j \in 1..Len(result.event.traits) :
              i # j => result.event.traits[i].name # result.event.traits[j].name
        /\ EventTraitNames \subseteq TraitNames(definitions[edef])
        /\ EventTraitNames \cap DeclaredElsewhere = {}
        /\ Len(result.event.traits) <= Len(definitions[edef].traits)
        /\ result.event.event_type = notification.v["event_type"]

\* the catch-all made the event of an 'image.upload' notification: the event
\* is of type 'image.upload' and lacks the instance_id that the declared rule
\* would have taken from the payload
C27_Witness ==
    /\ EventReturned
    /\ edef = 2
    /\ result.event.event_type = PyStr(s_image_upload)
    /\ definitions[edef].included_types = <<s_star>>
    /\ "instance_id" \in DeclaredElsewhere
    /\ to_trait(TraitAt(definitions[1], "instance_id"), notification).kind = "Trait"
    /\ EventTraitNames = {"message_id", "service"}

(***************************************************************************)
(* Properties of the construction of the converter (Spec).                 *)
(***************************************************************************)
\* the rules of the configuration with a trait that is refused
InvalidRules ==
    {i \in 1..Len(events_config) :
        \E k \in 1..Len(events_config[i].traits) :
            Refusal(events_config[i].traits[k][2]) # ""}

\* C25: construction is all or nothing: with an invalid rule at any position
\* of the configuration the constructor raises EventDefinitionException and
\* there is no converter, so none that holds the valid rules only; to_event
\* never raises EventDefinitionException.
C25_BuildAllOrNothing ==
    /\ pc # "new" =>
          IF InvalidRules # {}
          THEN /\ pc = "failed"
               /\ definitions = <<>>
               /\ error.exc = "EventDefinitionException"
               /\ result = NoResult
          ELSE /\ pc = "ready"
               /\ error = NoError
               /\ Len(definitions) >= Len(events_config)
    /\ result.kind = "raise" => result.error.exc # "EventDefinitionException"

\* the second of two rules is invalid, the first is not: construction raised
C25_Witness ==
    /\ pc = "failed"
    /\ InvalidRules = {2}
    /\ definitions = <<>>
    /\ error.exc = "EventDefinitionException"
\* the alternatives of td whose path goes through a key, before its last, that
\* the notification lacks
CutShort(td) ==
    {i \in 1..Len(td.fields) :
        \E n \in 1..(Len(td.fields[i].keys) - 1) :
            Resolve(notification, SubSeq(td.fields[i].keys, 1, n)) = Absent}

\* C26: a path with an intermediate key that the notification lacks matches
\* nothing and is no error: to_trait returns None when it is the only
\* alternative, and goes by the next alternative when there is one.
C26_MissingIntermediateKey ==
    (Called /\ tdef # NoTrait) =>
        /\ (Len(tdef.fields) = 1 /\ CutShort(tdef) = {1}) => result.kind = "None"
        /\ (Len(tdef.fields) = 2 /\ 1 \in CutShort(tdef)) =>
              IF 2 \in Usable(tdef)
              THEN GivesValueOf(result, tdef, RawAt(tdef, 2))
              ELSE result.kind = "None"

\* payload.image_meta.disk_gb over a payload without image_meta, then
\* payload.instance_uuid: the trait has the uuid
C26_Witness ==
    /\ Called
    /\ tdef # NoTrait
    /\ Len(tdef.fields) = 2
    /\ tdef.fields[1].keys = <<"payload", "image_meta", "disk_gb">>
    /\ CutShort(tdef) = {1}
    /\ tdef.trait_type = "TEXT_TYPE"
    /\ GaveValue(PyStr(s_uuid1))

(***************************************************************************)
(* The order of the entries of event_type (SpecListed).                    *)
(***************************************************************************)
\* the orders of the elements of S, as sequences
RECURSIVE OrdersOf(_)
OrdersOf(S) ==
    IF S = {} THEN {<<>>}
    ELSE UNION {{<<x>> \o p : p \in OrdersOf(S \ {x})} : x \in S}

\* the rule built of the configuration of TheRule with its entries in order p
Reordered(p) ==
    EventDefinition_init(
        [TheRule.cfg EXCEPT !.event_type =
            PyList([k \in 1..Len(p) |-> DeclaredEntries(TheRule.cfg)[p[k]]])]).obj

\* C28: match_type and is_catchall do not depend on the order of the entries
\* of event_type: the rule built of any permutation of the entries gives the
\* same answer for the event type asked and is a catch-all exactly when the
\* rule is.
C28_EntryOrderIrrelevant ==
    MatchReturned =>
        \A p \in OrdersOf(1..Len(DeclaredEntries(TheRule.cfg))) :
            /\ match_type(Reordered(p), Asked) = result.v
            /\ is_catchall(Reordered(p)) = is_catchall(TheRule)

\* ['!foo', '*.thing', 'foo'] accepted 'test.thing' by its second entry, which
\* is the first inclusion of some orders and the last of others
C28_Witness ==
    /\ MatchReturned
    /\ DeclaredEntries(TheRule.cfg) = <<s_not_foo, s_star_thing, s_foo>>
    /\ Asked = s_test_thing
    /\ result.v = TRUE
    /\ Reordered(<<3, 2, 1>>).included_types = <<s_foo, s_star_thing>>

(***************************************************************************)
(* The time of an event whose timestamp field holds no value (Spec).       *)
(***************************************************************************)
\* the field is a key of the notification and holds a value
HoldsValue(name) == HasField(name) /\ truthy(notification.v[name])

\* C29 as stated: a timestamp field that is present but null or empty is
\* passed over for a _context_timestamp that holds a time, and the current
\* time is used only when neither field holds a value.
C29_FallsBackOnUsableValue ==
    EventReturned =>
        /\ (HasField("timestamp") /\ ~HoldsValue("timestamp")
            /\ HasField("_context_timestamp")
            /\ notification.v["_context_timestamp"] = PyStr(s_ts_context)) =>
              result.event.generated = TimeOfContextTimestamp
        /\ result.event.generated = utcnow =>
              (~HoldsValue("timestamp") /\ ~HoldsValue("_context_timestamp"))
\* the values that are false in a test and are not None
Falsy == {PyInt(0), PyStr(s_empty), PyBool(FALSE)}

\* C30 as stated: a falsy value that is not null at an earlier alternative is
\* the value of the trait, and the trait is emitted.
C30_Original ==
    (HasPicked /\ Picked \in Falsy) => result.kind = "Trait"

\* C30: only None counts as absent: a value of 0, '' or False at the first
\* alternative that is present and not null is the one to_trait converts, and
\* a later alternative is not consulted in its place; the trait has its
\* converted value ('' , '0' and 'False' as text, 0 for 0 and False as int),
\* and when the declared type cannot hold it ('' as int or float) the error of
\* the conversion is raised.
C30_FalsyIsPresent ==
    (HasPicked /\ Picked \in Falsy) =>
        /\ GivesValueOf(result, tdef, Picked)
        /\ result.kind # "None"
        /\ tdef.trait_type = "TEXT_TYPE" =>
              GaveValue(CASE Picked = PyInt(0) -> PyStr(<<"0">>)
                          [] Picked = PyBool(FALSE) -> PyStr(<<"F", "a", "l", "s", "e">>)
                          [] OTHER -> PyStr(s_empty))
        /\ (tdef.trait_type = "INT_TYPE" /\ Picked # PyStr(s_empty)) =>
              GaveValue(PyInt(0))
        /\ (tdef.trait_type \in {"INT_TYPE", "FLOAT_TYPE"} /\ Picked = PyStr(s_empty)) =>
              (result.kind = "raise" /\ result.error.exc = "ValueError")

\* a text trait over payload.instance_id = 0, then payload.instance_uuid that
\* holds 'uuid-1': the trait is '0'
C30_Witness ==
    /\ HasPicked
    /\ Len(tdef.fields) = 2
    /\ Usable(tdef) = {1, 2}
    /\ Picked = PyInt(0)
    /\ RawAt(tdef, 2) = PyStr(s_uuid1)
    /\ tdef.trait_type = "TEXT_TYPE"
    /\ GaveValue(PyStr(<<"0">>))

====
